---- MODULE Spec2Model ----
(***************************************************************************)
(* Ratings server of earthservers-reclaim (apps/ratings-server): the       *)
(* rating submission pipeline, the aggregate refresh, the audit ledger and *)
(* the integrity checker, as a state machine over the relational tables.   *)
(*                                                                         *)
(* Every handler runs its SQL statements on the connection pool, one       *)
(* auto-committed statement at a time, so a step of the model is one       *)
(* statement.  The INSERT ... SELECT of refresh_aggregates reads the       *)
(* snapshot taken when the statement starts and writes its row afterwards  *)
(* (READ COMMITTED), hence its two steps.                                  *)
(*                                                                         *)
(* An optional value (Option<T>, a nullable column) is <<>> for None/NULL  *)
(* and <<x>> for Some(x).  A text value is a sequence of one-character     *)
(* strings.                                                                *)
(*                                                                         *)
(* The desktop application (apps/desktop) keeps its own ratings in a local *)
(* SQLite file through RatingManager.  Its commands take the lock of the   *)
(* application state, so a step of the model is one whole command; the     *)
(* statements of a command are committed one by one and a command may fail *)
(* between them.  The profiles and the incognito flag of the desktop are   *)
(* modelled the same way; their names and icons are plain strings.         *)
(***************************************************************************)
EXTENDS Integers, Sequences, FiniteSets, TLC

\* ------------------------------------------------------------------ bounds

\* Total number of submit requests in a behaviour.
MaxSubmits == 2
\* Total number of vote, report and read requests in a behaviour.
MaxOthers == 1
\* Total number of commands of the desktop application in a behaviour.
MaxCommands == 3
\* Largest number of rating_audit_log rows that verify is run against.
MaxEntries == 3
\* Total number of incognito and profile commands in a behaviour.
MaxCalls == 3

\* The request handlers that may run at the same time.
Procs == {"h1", "h2"}

None == <<>>
Some(x) == <<x>>

Domains == {<<"a">>, <<"b">>}
Users == {<<"u">>, <<"v">>}
\* (trust_level, bias_level, comment) a caller sends with levels in range,
\* and (trust_level, bias_level) out of range on either side of either level.
ValidPayloads == {<<5, 2, None>>, <<1, 4, Some(<<"c">>)>>}
InvalidLevels == {<<0, 2>>, <<6, 2>>, <<5, 0>>, <<1, 5>>}
\* domains.id of the desktop's ratings.
DomainIds == {1, 2}
Voters == {<<"w">>}
Reasons == {<<"s">>}

\* SubmitRatingRequest
Requests ==
  { [domain_url |-> d, user_hash |-> u, trust_level |-> l[1],
     bias_level |-> l[2], comment |-> l[3]] :
      d \in Domains, u \in Users, l \in ValidPayloads }
  \cup
  { [domain_url |-> <<"a">>, user_hash |-> <<"u">>, trust_level |-> l[1],
     bias_level |-> l[2], comment |-> None] : l \in InvalidLevels }

\* ------------------------------------------------------------------ state

VARIABLES
  domain_ratings,           \* table domain_ratings: a set of Rating rows
  domain_ratings_id_seq,    \* next value of domain_ratings.id
  rating_audit_log,         \* table rating_audit_log: rows in insertion order
  domain_rating_aggregates, \* table domain_rating_aggregates: domain -> Option<row>
  rating_votes,             \* table rating_votes: a set of rows
  rating_reports,           \* table rating_reports: rows in insertion order
  clock,                    \* the store's NOW()
  pc,                       \* per handler: "idle", "refresh" or "write"
  cur,                      \* per handler: the submit it runs (index in hist, rating)
  snap,                     \* per handler: the row its refresh statement computed
  hist,                     \* every submit request made, with its outcome
  answer,                   \* the response of the step just taken, when it is
                            \* a vote, report or read request
  others,                   \* number of vote, report and read requests that
                            \* are still to be made
  desktop_ratings,          \* desktop, table domain_ratings: a set of rows
  desktop_rowid,            \* desktop, next AUTOINCREMENT id of domain_ratings
  desktop_aggregates,       \* desktop, table domain_rating_aggregates:
                            \* domain_id -> Option<row>
  desktop_now,              \* desktop, the system time in seconds
  desktop_result,           \* desktop, the outcome of the command just run
  desktop_commands,         \* desktop, number of commands run
  desktop_lock,             \* desktop, the holder of Mutex<AppState>, if any
  desktop_pc,               \* desktop, per thread: "idle", "waiting" for the
                            \* lock or "running" its command under the lock
  incognito_mode,           \* desktop, the flag INCOGNITO_MODE
  incognito_result,         \* desktop, the outcome of the incognito command
                            \* just run
  profile_db_path,          \* desktop, ProfileManager.db_path
  profile_db,               \* desktop, the database file at db_path: the
                            \* tables profiles and privacy_settings
  profile_result,           \* desktop, the outcome of the profile command
                            \* just run
  session_commands          \* desktop, number of incognito and profile
                            \* commands run

\* The tables and the bookkeeping of the desktop's rating commands.
ratings_store == <<desktop_ratings, desktop_rowid, desktop_aggregates,
                   desktop_now, desktop_result, desktop_commands>>

\* The lock of the desktop's state and the threads that run its commands.
threads == <<desktop_lock, desktop_pc>>

\* The incognito flag and the profiles of the desktop.
session == <<incognito_mode, incognito_result, profile_db_path, profile_db,
             profile_result, session_commands>>

\* The state of the desktop application.
desktop == <<ratings_store, threads, session>>

vars == <<domain_ratings, domain_ratings_id_seq, rating_audit_log,
          domain_rating_aggregates, rating_votes, rating_reports, clock,
          pc, cur, snap, hist, answer, others, desktop>>

tables == <<domain_ratings, rating_audit_log, domain_rating_aggregates,
            rating_votes, rating_reports>>

\* The threads that run the desktop's async commands.
Threads == {"t1", "t2"}

\* A database without tables: a file not yet initialized, or what
\* Connection::open(":memory:") gives.
EmptyDatabase ==
  [tables |-> FALSE, profiles |-> {}, privacy_settings |-> {}, seq |-> 1]

\* The desktop after setup, before any command and before
\* ProfileManager::init, with its database at one of the paths: no thread in
\* a command, INCOGNITO_MODE false.
InitSession(paths) ==
  /\ desktop_lock = None
  /\ desktop_pc = [t \in Threads |-> "idle"]
  /\ incognito_mode = FALSE
  /\ incognito_result = None
  /\ profile_db_path \in paths
  /\ profile_db = EmptyDatabase
  /\ profile_result = None
  /\ session_commands = 0

\* ------------------------------------------------------------------ text

Digit(n) == CASE n = 0 -> "0" [] n = 1 -> "1" [] n = 2 -> "2" [] n = 3 -> "3"
              [] n = 4 -> "4" [] n = 5 -> "5" [] n = 6 -> "6" [] n = 7 -> "7"
              [] n = 8 -> "8" [] n = 9 -> "9"

RECURSIVE NatToString(_)
NatToString(n) == IF n < 10 THEN <<Digit(n)>>
                  ELSE NatToString(n \div 10) \o <<Digit(n % 10)>>

\* i32/i64 to_string()
IntToString(n) == IF n < 0 THEN <<"-">> \o NatToString(0 - n) ELSE NatToString(n)

\* Option<i32>::map_or(String::new(), |t| t.to_string())
LevelText(o) == IF o = None THEN <<>> ELSE IntToString(o[1])

\* Option<&str>::unwrap_or("")
UnwrapOrEmpty(o) == IF o = None THEN <<>> ELSE o[1]

\* SHA-256, hex encoded.  The digest is modelled as collision free: it is
\* the tagged message, so two digests agree only if the messages agree.
Sha256Hex(bytes) == [sha256 |-> bytes]

\* format!("{}|{}|{}|{}|{}|{}", ...)
ChangeData(rating_id, domain_url, user_hash, trust_level, bias_level, comment) ==
  IntToString(rating_id) \o <<"|">> \o domain_url \o <<"|">> \o user_hash \o <<"|">>
    \o LevelText(trust_level) \o <<"|">> \o LevelText(bias_level) \o <<"|">>
    \o UnwrapOrEmpty(comment)

\* The digest taken without the comment.
ChangeHashWithoutComment(rating_id, domain_url, user_hash, trust_level, bias_level, comment) ==
  Sha256Hex(ChangeData(rating_id, domain_url, user_hash, trust_level, bias_level, None))

\* fn compute_change_hash
compute_change_hash(rating_id, domain_url, user_hash, trust_level, bias_level, comment) ==
  Sha256Hex(ChangeData(rating_id, domain_url, user_hash, trust_level, bias_level, comment))

\* ------------------------------------------------------------------ tables

\* The rows of domain_ratings with this (domain_url, user_hash).
RowsOf(rows, domain_url, user_hash) ==
  {r \in rows : r.domain_url = domain_url /\ r.user_hash = user_hash}

\* The row an INSERT INTO domain_ratings adds: id from the sequence,
\* created_at and updated_at from their NOW() defaults.
NewRating(idseq, now, req) ==
  [id |-> idseq, domain_url |-> req.domain_url, user_hash |-> req.user_hash,
   trust_level |-> req.trust_level, bias_level |-> req.bias_level,
   comment |-> req.comment, created_at |-> now, updated_at |-> now]

\* A plain INSERT with no uniqueness on (domain_url, user_hash): every
\* submit adds a row.
InsertRatingAlways(rows, idseq, now, req) ==
  LET row == NewRating(idseq, now, req)
  IN [ok |-> TRUE, rows |-> rows \cup {row}, row |-> row, idseq |-> idseq + 1]

\* A plain INSERT without the ON CONFLICT clause: the unique index rejects
\* the second row of a pair and the statement fails.
InsertRatingOrFail(rows, idseq, now, req) ==
  IF RowsOf(rows, req.domain_url, req.user_hash) # {}
  THEN [ok |-> FALSE, rows |-> rows, row |-> None, idseq |-> idseq]
  ELSE InsertRatingAlways(rows, idseq, now, req)

\* ON CONFLICT ... DO UPDATE SET updated_at = NOW() alone: the conflicting
\* row keeps its old levels and comment.
UpsertRatingKeepsOld(rows, idseq, now, req) ==
  LET old == RowsOf(rows, req.domain_url, req.user_hash)
  IN IF old = {} THEN InsertRatingAlways(rows, idseq, now, req)
     ELSE LET row == [(CHOOSE r \in old : TRUE) EXCEPT !.updated_at = now]
          IN [ok |-> TRUE, rows |-> (rows \ old) \cup {row}, row |-> row,
              idseq |-> idseq]

\* INSERT INTO domain_ratings (...) VALUES ($1..$5)
\* ON CONFLICT (domain_url, user_hash) DO UPDATE SET trust_level = $3,
\*   bias_level = $4, comment = $5, updated_at = NOW()  RETURNING ...
\* "ok" is FALSE when the statement fails on the uniqueness conflict, which
\* ON CONFLICT never lets happen; "row" is the RETURNING row.
UpsertRating(rows, idseq, now, req) ==
  LET old == RowsOf(rows, req.domain_url, req.user_hash)
      new == NewRating(idseq, now, req)
  IN IF old = {}
     THEN [ok |-> TRUE, rows |-> rows \cup {new}, row |-> new,
           idseq |-> idseq + 1]
     ELSE LET row == [(CHOOSE r \in old : TRUE) EXCEPT
                        !.trust_level = req.trust_level,
                        !.bias_level = req.bias_level,
                        !.comment = req.comment,
                        !.updated_at = now]
          IN [ok |-> TRUE, rows |-> (rows \ old) \cup {row}, row |-> row,
              idseq |-> idseq]

\* The ledger overwrites the rating's last entry instead of appending.
AuditOverwrite(log, row, now) ==
  LET mine == {i \in 1..Len(log) : log[i].rating_id = row.id}
      e == [id |-> Len(log) + 1, rating_id |-> row.id,
            action_type |-> IF mine = {} THEN "create" ELSE "update",
            domain_url |-> row.domain_url, user_hash |-> row.user_hash,
            trust_level |-> Some(row.trust_level),
            bias_level |-> Some(row.bias_level), comment |-> row.comment,
            changed_at |-> now,
            change_hash |-> compute_change_hash(row.id, row.domain_url,
                              row.user_hash, Some(row.trust_level),
                              Some(row.bias_level), row.comment)]
  IN IF mine = {} THEN Append(log, e)
     ELSE LET last == CHOOSE i \in mine : \A j \in mine : j <= i
          IN [log EXCEPT ![last] = [e EXCEPT !.id = log[last].id]]

\* The ledger labels every entry "create".
AuditAppendCreate(log, row, now) ==
  Append(log,
    [id |-> Len(log) + 1, rating_id |-> row.id, action_type |-> "create",
     domain_url |-> row.domain_url, user_hash |-> row.user_hash,
     trust_level |-> Some(row.trust_level),
     bias_level |-> Some(row.bias_level), comment |-> row.comment,
     changed_at |-> now,
     change_hash |-> compute_change_hash(row.id, row.domain_url,
                       row.user_hash, Some(row.trust_level),
                       Some(row.bias_level), row.comment)])

\* AuditLedger append: the entry written to rating_audit_log with every
\* rating mutation, in the statement that makes the mutation.  action_type
\* is "create" for the first entry of a rating_id and "update" afterwards;
\* change_hash is the digest of the entry's own values.
AuditAppend(log, row, now) ==
  LET mine == {i \in 1..Len(log) : log[i].rating_id = row.id}
  IN Append(log,
       [id |-> Len(log) + 1, rating_id |-> row.id,
        action_type |-> IF mine = {} THEN "create" ELSE "update",
        domain_url |-> row.domain_url, user_hash |-> row.user_hash,
        trust_level |-> Some(row.trust_level),
        bias_level |-> Some(row.bias_level), comment |-> row.comment,
        changed_at |-> now,
        change_hash |-> compute_change_hash(row.id, row.domain_url,
                          row.user_hash, Some(row.trust_level),
                          Some(row.bias_level), row.comment)])

\* ------------------------------------------------------------------ aggregates

RECURSIVE Gcd(_, _)
Gcd(a, b) == IF b = 0 THEN a ELSE Gcd(b, a % b)

\* A float that is the quotient of two integers, as a reduced fraction.
Quotient(n, d) == LET g == Gcd(n, d) IN <<n \div g, d \div g>>

RECURSIVE SumOf(_, _)
SumOf(rows, column) ==
  IF rows = {} THEN 0
  ELSE LET r == CHOOSE x \in rows : TRUE
       IN r[column] + SumOf(rows \ {r}, column)

\* AVG(column::float)
Avg(rows, column) == Quotient(SumOf(rows, column), Cardinality(rows))

\* COUNT(*) OVER () in the place of COUNT(*) OVER (PARTITION BY column):
\* every level that some row has holds the number of all rows.
DistributionOverAll(rows, column) ==
  [k \in {IntToString(r[column]) : r \in rows} |-> Cardinality(rows)]

\* jsonb_object_agg(column::text, COUNT(*) OVER (PARTITION BY column)): an
\* object with one key per level that some row has, holding the number of
\* rows with that level.
Distribution(rows, column) ==
  [k \in {IntToString(r[column]) : r \in rows} |->
     Cardinality({r \in rows : IntToString(r[column]) = k})]

\* The SELECT of refresh_aggregates over the rows of domain_ratings it sees:
\* one row for the domain (GROUP BY 1), or no row when the domain has none.
AggregateRow(rows, domain_url) ==
  LET sub == {r \in rows : r.domain_url = domain_url}
  IN IF sub = {} THEN None
     ELSE Some([avg_trust_level |-> Avg(sub, "trust_level"),
                avg_bias_level |-> Avg(sub, "bias_level"),
                total_ratings |-> Cardinality(sub),
                trust_distribution |-> Distribution(sub, "trust_level"),
                bias_distribution |-> Distribution(sub, "bias_level")])

\* The RatingAggregate columns of a stored aggregate row (without updated_at).
AggregateOf(stored) ==
  IF stored = None THEN None
  ELSE Some([avg_trust_level |-> stored[1].avg_trust_level,
             avg_bias_level |-> stored[1].avg_bias_level,
             total_ratings |-> stored[1].total_ratings,
             trust_distribution |-> stored[1].trust_distribution,
             bias_distribution |-> stored[1].bias_distribution])

\* ------------------------------------------------------------------ integrity

\* The rows in the order of their insertion.
RECURSIVE OrderById(_)
OrderById(entries) ==
  IF entries = {} THEN <<>>
  ELSE LET e == CHOOSE x \in entries : \A y \in entries : x.id <= y.id
       IN <<e>> \o OrderById(entries \ {e})

\* ORDER BY changed_at ASC over a set of ledger rows (rows with equal
\* changed_at in id order).
RECURSIVE OrderByChangedAt(_)
OrderByChangedAt(entries) ==
  IF entries = {} THEN <<>>
  ELSE LET e == CHOOSE x \in entries : \A y \in entries :
                  \/ x.changed_at < y.changed_at
                  \/ x.changed_at = y.changed_at /\ x.id <= y.id
       IN <<e>> \o OrderByChangedAt(entries \ {e})

\* SELECT ... FROM rating_audit_log WHERE rating_id = $1 ORDER BY changed_at ASC
AuditTrail(log, rating_id) ==
  OrderByChangedAt({log[i] : i \in {j \in 1..Len(log) : log[j].rating_id = rating_id}})

\* The entry's hash recomputed with the entry's own id in the place of the
\* rating's id.
VerifiedEntryByEntryId(rating_id, entry) ==
  [id |-> entry.id, action_type |-> entry.action_type,
   trust_level |-> entry.trust_level, bias_level |-> entry.bias_level,
   changed_at |-> entry.changed_at,
   hash_valid |-> compute_change_hash(entry.id, entry.domain_url,
                     entry.user_hash, entry.trust_level, entry.bias_level,
                     entry.comment) = entry.change_hash]

\* One element of IntegrityReport.audit_entries: the hash is recomputed from
\* the stored values of the row and compared with the stored change_hash.
VerifiedEntry(rating_id, entry) ==
  [id |-> entry.id, action_type |-> entry.action_type,
   trust_level |-> entry.trust_level, bias_level |-> entry.bias_level,
   changed_at |-> entry.changed_at,
   hash_valid |-> compute_change_hash(rating_id, entry.domain_url,
                     entry.user_hash, entry.trust_level, entry.bias_level,
                     entry.comment) = entry.change_hash]

\* is_valid assigned from every entry in turn: the last entry decides.
verify_last_entry_only(rows, log, rating_id) ==
  IF ~ \E r \in rows : r.id = rating_id
  THEN [status |-> 404, body |-> None]
  ELSE LET trail == AuditTrail(log, rating_id)
           entries == [i \in 1..Len(trail) |-> VerifiedEntry(rating_id, trail[i])]
       IN [status |-> 200,
           body |-> Some(
             [rating_id |-> rating_id,
              is_valid |-> IF entries = <<>> THEN TRUE
                           ELSE entries[Len(entries)].hash_valid,
              total_changes |-> Len(entries),
              created_at |-> IF entries = <<>> THEN None
                             ELSE Some(entries[1].changed_at),
              last_modified |-> IF entries = <<>> THEN None
                                ELSE Some(entries[Len(entries)].changed_at),
              audit_entries |-> entries])]

\* The loop over the trail left at the first entry whose hash differs.
verify_stop_at_mismatch(rows, log, rating_id) ==
  IF ~ \E r \in rows : r.id = rating_id
  THEN [status |-> 404, body |-> None]
  ELSE LET trail == AuditTrail(log, rating_id)
           all == [i \in 1..Len(trail) |-> VerifiedEntry(rating_id, trail[i])]
           bad == {i \in 1..Len(all) : ~all[i].hash_valid}
           entries == IF bad = {} THEN all
                      ELSE SubSeq(all, 1, CHOOSE i \in bad : \A j \in bad : i <= j)
       IN [status |-> 200,
           body |-> Some(
             [rating_id |-> rating_id,
              is_valid |-> \A i \in 1..Len(entries) : entries[i].hash_valid,
              total_changes |-> Len(entries),
              created_at |-> IF entries = <<>> THEN None
                             ELSE Some(entries[1].changed_at),
              last_modified |-> IF entries = <<>> THEN None
                                ELSE Some(entries[Len(entries)].changed_at),
              audit_entries |-> entries])]

\* The existence of the rating decided by its ledger entries.
verify_by_ledger(rows, log, rating_id) ==
  LET trail == AuditTrail(log, rating_id)
      entries == [i \in 1..Len(trail) |-> VerifiedEntry(rating_id, trail[i])]
  IN IF trail = <<>>
     THEN [status |-> 404, body |-> None]
     ELSE [status |-> 200,
           body |-> Some(
             [rating_id |-> rating_id,
              is_valid |-> \A i \in 1..Len(entries) : entries[i].hash_valid,
              total_changes |-> Len(entries),
              created_at |-> Some(entries[1].changed_at),
              last_modified |-> Some(entries[Len(entries)].changed_at),
              audit_entries |-> entries])]

\* GET /ratings/{rating_id}/verify
verify_rating_integrity(rows, log, rating_id) ==
  IF ~ \E r \in rows : r.id = rating_id
  THEN [status |-> 404, body |-> None]
  ELSE LET trail == AuditTrail(log, rating_id)
           entries == [i \in 1..Len(trail) |-> VerifiedEntry(rating_id, trail[i])]
       IN [status |-> 200,
           body |-> Some(
             [rating_id |-> rating_id,
              is_valid |-> \A i \in 1..Len(entries) : entries[i].hash_valid,
              total_changes |-> Len(entries),
              created_at |-> IF entries = <<>> THEN None
                             ELSE Some(entries[1].changed_at),
              last_modified |-> IF entries = <<>> THEN None
                                ELSE Some(entries[Len(entries)].changed_at),
              audit_entries |-> entries])]

\* The orphans counted from the ledger's side: the entries whose rating is
\* missing.
integrity_status_orphan_entries(rows, log, now) ==
  LET orphaned == Cardinality({i \in 1..Len(log) :
                     ~ \E r \in rows : r.id = log[i].rating_id})
      invalid_entries == 0
  IN [status |-> 200,
      body |-> Some(
        [is_healthy |-> (orphaned = 0 /\ invalid_entries = 0),
         total_ratings |-> Cardinality(rows),
         total_audit_entries |-> Len(log),
         invalid_audit_entries |-> invalid_entries,
         orphaned_ratings |-> orphaned,
         checked_at |-> now])]

\* The status check with the hash of every ledger row verified.
integrity_status_expensive(rows, log, now) ==
  LET orphaned == Cardinality({r \in rows :
                     ~ \E i \in 1..Len(log) : log[i].rating_id = r.id})
      invalid_entries ==
        Cardinality({i \in 1..Len(log) :
          ~VerifiedEntry(log[i].rating_id, log[i]).hash_valid})
  IN [status |-> 200,
      body |-> Some(
        [is_healthy |-> (orphaned = 0 /\ invalid_entries = 0),
         total_ratings |-> Cardinality(rows),
         total_audit_entries |-> Len(log),
         invalid_audit_entries |-> invalid_entries,
         orphaned_ratings |-> orphaned,
         checked_at |-> now])]

\* GET /health/integrity
integrity_status(rows, log, now) ==
  LET orphaned == Cardinality({r \in rows :
                     ~ \E i \in 1..Len(log) : log[i].rating_id = r.id})
      invalid_entries == 0
  IN [status |-> 200,
      body |-> Some(
        [is_healthy |-> (orphaned = 0 /\ invalid_entries = 0),
         total_ratings |-> Cardinality(rows),
         total_audit_entries |-> Len(log),
         invalid_audit_entries |-> invalid_entries,
         orphaned_ratings |-> orphaned,
         checked_at |-> now])]

\* SELECT MAX(changed_at) FROM rating_audit_log
LastAuditEntry(log) ==
  IF log = <<>> THEN None
  ELSE Some(CHOOSE t \in {log[i].changed_at : i \in 1..Len(log)} :
              \A i \in 1..Len(log) : log[i].changed_at <= t)

\* GET /health/backup.  lag is the outcome of the replication-lag query:
\* Some(seconds) on a replica in recovery, None otherwise or when it fails.
backup_status(rows, log, lag) ==
  [status |-> 200,
   body |-> Some(
     [last_audit_entry |-> LastAuditEntry(log),
      total_ratings |-> Cardinality(rows),
      total_audit_entries |-> Len(log),
      replication_lag_seconds |-> lag])]

\* ------------------------------------------------------------------ moderation

\* ON CONFLICT (rating_id, voter_hash) DO NOTHING: the first vote stays.
InsertVoteOnce(votes, rating_id, voter_hash, is_helpful) ==
  IF \E v \in votes : v.rating_id = rating_id /\ v.voter_hash = voter_hash
  THEN votes
  ELSE votes \cup {[rating_id |-> rating_id, voter_hash |-> voter_hash,
                    is_helpful |-> is_helpful]}

\* An insert that skips a report the reporter already made on the rating.
InsertReportOnce(reports, rating_id, reporter_hash, reason) ==
  IF \E i \in 1..Len(reports) : /\ reports[i].rating_id = rating_id
                                /\ reports[i].reporter_hash = reporter_hash
  THEN reports
  ELSE Append(reports, [rating_id |-> rating_id,
                        reporter_hash |-> reporter_hash, reason |-> reason])

\* INSERT INTO rating_votes ... ON CONFLICT (rating_id, voter_hash)
\* DO UPDATE SET is_helpful = $3
UpsertVote(votes, rating_id, voter_hash, is_helpful) ==
  {v \in votes : ~(v.rating_id = rating_id /\ v.voter_hash = voter_hash)}
    \cup {[rating_id |-> rating_id, voter_hash |-> voter_hash,
           is_helpful |-> is_helpful]}

\* INSERT INTO rating_reports (rating_id, reporter_hash, reason)
InsertReport(reports, rating_id, reporter_hash, reason) ==
  Append(reports, [rating_id |-> rating_id, reporter_hash |-> reporter_hash,
                   reason |-> reason])

\* LIMIT 50 of get_domain_reviews.
ReviewsLimit == 50

\* The results of ORDER BY created_at DESC: every arrangement of the rows
\* with created_at descending; rows of equal created_at come in any order.
OrderByCreatedAtDesc(rows) ==
  {s \in [1..Cardinality(rows) -> rows] :
     /\ \A i, j \in DOMAIN s : i < j => s[i].created_at >= s[j].created_at
     /\ \A i, j \in DOMAIN s : i # j => s[i] # s[j]}

\* LIMIT n
Limit(s, n) == [i \in 1..(IF Len(s) < n THEN Len(s) ELSE n) |-> s[i]]

\* GET /ratings/{domain}/reviews: the responses the query can give.
get_domain_reviews(rows, domain_url) ==
  {[status |-> 200, body |-> Some(Limit(s, ReviewsLimit))] :
     s \in OrderByCreatedAtDesc({r \in rows : r.domain_url = domain_url})}

\* A get_domain_rating that answers 200 with an empty aggregate for a domain
\* without a row.
get_domain_rating_or_empty(aggregates, domain_url) ==
  IF aggregates[domain_url] = None
  THEN [status |-> 200, body |-> None]
  ELSE [status |-> 200, body |-> AggregateOf(aggregates[domain_url])]

\* GET /ratings/{domain}: fetch_optional of the domain's row of
\* domain_rating_aggregates; no row is 404.
get_domain_rating(aggregates, domain_url) ==
  IF aggregates[domain_url] = None
  THEN [status |-> 404, body |-> None]
  ELSE [status |-> 200, body |-> AggregateOf(aggregates[domain_url])]

\* A lag query whose missing value is reported as 0.
replication_lag_or_zero(now, in_recovery, replayed, failed) ==
  IF failed \/ ~in_recovery \/ replayed = None THEN Some(0)
  ELSE Some(now - replayed[1])

\* The replication-lag query of backup_status: seconds since the last
\* replayed transaction, WHERE pg_is_in_recovery().  A failed query (.ok()),
\* no row (not in recovery) and a NULL (nothing replayed yet) all give None.
replication_lag(now, in_recovery, replayed, failed) ==
  IF failed THEN None
  ELSE IF ~in_recovery THEN None
  ELSE IF replayed = None THEN None
  ELSE Some(now - replayed[1])

\* ------------------------------------------------------------------ handlers

\* The ids a caller puts in the path of vote, report and verify.
RatingIds == 1..2

\* if req.trust_level < 1 || req.trust_level > 5 { return Err(BAD_REQUEST) }
\* if req.bias_level < 1 || req.bias_level > 4 { return Err(BAD_REQUEST) }
\* with the lower bound of trust_level off by one.
ValidRequestFromZero(req) ==
  /\ ~(req.trust_level < 0 \/ req.trust_level > 5)
  /\ ~(req.bias_level < 1 \/ req.bias_level > 4)

\* if req.trust_level < 1 || req.trust_level > 5 { return Err(BAD_REQUEST) }
\* if req.bias_level < 1 || req.bias_level > 4 { return Err(BAD_REQUEST) }
ValidRequest(req) ==
  /\ ~(req.trust_level < 1 \/ req.trust_level > 5)
  /\ ~(req.bias_level < 1 \/ req.bias_level > 4)

Init ==
  /\ domain_ratings = {}
  /\ domain_ratings_id_seq = 1
  /\ rating_audit_log = <<>>
  /\ domain_rating_aggregates = [d \in Domains |-> None]
  /\ rating_votes = {}
  /\ rating_reports = <<>>
  /\ clock = 1
  /\ pc = [p \in Procs |-> "idle"]
  /\ cur = [p \in Procs |-> None]
  /\ snap = [p \in Procs |-> None]
  /\ hist = <<>>
  /\ answer = None
  /\ others = MaxOthers
  /\ desktop_ratings = {}
  /\ desktop_rowid = 1
  /\ desktop_aggregates = [d \in DomainIds |-> None]
  /\ desktop_now = 1
  /\ desktop_result = None
  /\ desktop_commands = 0
  /\ InitSession({"earthservers.db"})

\* No other handler is between the statements of a submit.
Alone(p) == \A q \in Procs \ {p} : pc[q] = "idle"

CanSubmit(p) == pc[p] = "idle" /\ Len(hist) < MaxSubmits

\* The record of a submit: its request, the status returned (0 while it
\* runs), the cause of an error, whether its upsert was committed, whether
\* it started while no other submit was running, and the body returned.
Outcome(req, status, err, committed, alone) ==
  [req |-> req, status |-> status, err |-> err, committed |-> committed,
   alone |-> alone, body |-> None]

\* submit_rating, levels out of range: 400 before any statement runs.
SubmitRatingInvalid(p, req) ==
  /\ CanSubmit(p)
  /\ ~ValidRequest(req)
  /\ hist' = Append(hist, Outcome(req, 400, "validation", FALSE, Alone(p)))
  /\ UNCHANGED <<tables, domain_ratings_id_seq, clock, pc, cur, snap,
                 others, desktop>>
  /\ answer' = None

\* submit_rating, the upsert statement; the ledger entry of the mutation is
\* written by the same statement.  A statement that fails on the uniqueness
\* conflict changes nothing and the handler returns 500.
SubmitRatingUpsert(p, req) ==
  /\ CanSubmit(p)
  /\ ValidRequest(req)
  /\ LET r == UpsertRating(domain_ratings, domain_ratings_id_seq, clock, req)
     IN IF r.ok
        THEN /\ domain_ratings' = r.rows
             /\ domain_ratings_id_seq' = r.idseq
             /\ rating_audit_log' = AuditAppend(rating_audit_log, r.row, clock)
             /\ clock' = clock + 1
             /\ pc' = [pc EXCEPT ![p] = "refresh"]
             /\ cur' = [cur EXCEPT ![p] = Some([h |-> Len(hist) + 1, rating |-> r.row])]
             /\ hist' = Append(hist, Outcome(req, 0, "none", TRUE, Alone(p)))
        ELSE /\ hist' = Append(hist, Outcome(req, 500, "conflict", FALSE, Alone(p)))
             /\ UNCHANGED <<domain_ratings, domain_ratings_id_seq,
                            rating_audit_log, clock, pc, cur>>
  /\ UNCHANGED <<domain_rating_aggregates, rating_votes, rating_reports, snap,
                 others, desktop>>
  /\ answer' = None

\* submit_rating, the upsert statement fails in the store: 500, nothing written.
SubmitRatingUpsertError(p, req) ==
  /\ CanSubmit(p)
  /\ ValidRequest(req)
  /\ hist' = Append(hist, Outcome(req, 500, "storage", FALSE, Alone(p)))
  /\ UNCHANGED <<tables, domain_ratings_id_seq, clock, pc, cur, snap,
                 others, desktop>>
  /\ answer' = None

\* refresh_aggregates, the SELECT of its INSERT ... SELECT: the statement
\* computes the aggregate row, stamped NOW(), from the ratings committed
\* when it starts.
RefreshAggregatesSelect(p) ==
  /\ pc[p] = "refresh"
  /\ LET row == AggregateRow(domain_ratings, hist[cur[p][1].h].req.domain_url)
     IN snap' = [snap EXCEPT ![p] =
                   IF row = None THEN None
                   ELSE Some(row[1] @@ [updated_at |-> clock])]
  /\ pc' = [pc EXCEPT ![p] = "write"]
  /\ UNCHANGED <<tables, domain_ratings_id_seq, clock, cur, hist, others,
                 desktop>>
  /\ answer' = None

\* refresh_aggregates, the INSERT ... ON CONFLICT (domain_url) DO UPDATE of
\* the computed row; then submit_rating returns the rating of its upsert.
RefreshAggregatesWrite(p) ==
  /\ pc[p] = "write"
  /\ domain_rating_aggregates' =
       IF snap[p] = None THEN domain_rating_aggregates
       ELSE [domain_rating_aggregates EXCEPT
               ![hist[cur[p][1].h].req.domain_url] = snap[p]]
  /\ hist' = [hist EXCEPT ![cur[p][1].h].status = 200,
                          ![cur[p][1].h].body = Some(cur[p][1].rating)]
  /\ pc' = [pc EXCEPT ![p] = "idle"]
  /\ cur' = [cur EXCEPT ![p] = None]
  /\ snap' = [snap EXCEPT ![p] = None]
  /\ UNCHANGED <<domain_ratings, rating_audit_log, rating_votes, rating_reports,
                 domain_ratings_id_seq, clock, others, desktop>>
  /\ answer' = None

\* refresh_aggregates fails in the store: submit_rating returns 500 after
\* its upsert has been committed.
RefreshAggregatesError(p) ==
  /\ pc[p] \in {"refresh", "write"}
  /\ hist' = [hist EXCEPT ![cur[p][1].h].status = 500,
                          ![cur[p][1].h].err = "storage"]
  /\ pc' = [pc EXCEPT ![p] = "idle"]
  /\ cur' = [cur EXCEPT ![p] = None]
  /\ snap' = [snap EXCEPT ![p] = None]
  /\ UNCHANGED <<tables, domain_ratings_id_seq, clock, others, desktop>>
  /\ answer' = None

CanAsk(p) == pc[p] = "idle" /\ others > 0

\* The response of a vote, report or read request: the handler, its inputs,
\* the cause of an error ("none" or "storage"), the status and the body.
Answer(op, arg, err, r) ==
  /\ answer' = Some([op |-> op, arg |-> arg, err |-> err,
                     status |-> r.status, body |-> r.body])
  /\ others' = others - 1
  /\ UNCHANGED <<domain_ratings_id_seq, clock, pc, cur, snap, hist, desktop>>

\* The is_helpful stored for a rating and a voter, if any.
StoredVote(votes, rating_id, voter_hash) ==
  LET found == {v \in votes : /\ v.rating_id = rating_id
                              /\ v.voter_hash = voter_hash}
  IN IF found = {} THEN None ELSE Some((CHOOSE v \in found : TRUE).is_helpful)

\* A vote that also stamps the rating it is cast on.
VoteHelpfulStampsRating(p, rating_id, voter_hash, is_helpful) ==
  /\ CanAsk(p)
  /\ rating_votes' = UpsertVote(rating_votes, rating_id, voter_hash, is_helpful)
  /\ domain_ratings' = {IF r.id = rating_id THEN [r EXCEPT !.updated_at = clock + 1]
                        ELSE r : r \in domain_ratings}
  /\ Answer("vote_helpful",
            <<rating_id, voter_hash, is_helpful,
              StoredVote(rating_votes, rating_id, voter_hash)>>, "none",
            [status |-> 201, body |-> None])
  /\ UNCHANGED <<rating_audit_log, domain_rating_aggregates, rating_reports>>

\* vote_helpful.  The response is recorded with the request and with what
\* was stored for the rating and the voter when it arrived.
VoteHelpful(p, rating_id, voter_hash, is_helpful) ==
  /\ CanAsk(p)
  /\ rating_votes' = UpsertVote(rating_votes, rating_id, voter_hash, is_helpful)
  /\ Answer("vote_helpful",
            <<rating_id, voter_hash, is_helpful,
              StoredVote(rating_votes, rating_id, voter_hash)>>, "none",
            [status |-> 201, body |-> None])
  /\ UNCHANGED <<domain_ratings, rating_audit_log, domain_rating_aggregates,
                 rating_reports>>

\* report_rating
ReportRating(p, rating_id, reporter_hash, reason) ==
  /\ CanAsk(p)
  /\ rating_reports' = InsertReport(rating_reports, rating_id, reporter_hash, reason)
  /\ Answer("report_rating", <<rating_id, reporter_hash, reason>>, "none",
            [status |-> 201, body |-> None])
  /\ UNCHANGED <<domain_ratings, rating_audit_log, domain_rating_aggregates,
                 rating_votes>>

\* vote_helpful or report_rating, the statement fails in the store: 500.
ModerationError(p) ==
  /\ CanAsk(p)
  /\ Answer("moderation", <<>>, "storage", [status |-> 500, body |-> None])
  /\ UNCHANGED tables

\* verify_rating_integrity
VerifyRatingIntegrity(p, rating_id) ==
  /\ CanAsk(p)
  /\ Answer("verify_rating_integrity", <<rating_id>>, "none",
            verify_rating_integrity(domain_ratings, rating_audit_log, rating_id))
  /\ UNCHANGED tables

\* verify_rating_integrity, one of its two queries fails in the store: 500.
VerifyRatingIntegrityError(p, rating_id) ==
  /\ CanAsk(p)
  /\ Answer("verify_rating_integrity", <<rating_id>>, "storage",
            [status |-> 500, body |-> None])
  /\ UNCHANGED tables

\* integrity_status
IntegrityStatus(p) ==
  /\ CanAsk(p)
  /\ Answer("integrity_status", <<>>, "none",
            integrity_status(domain_ratings, rating_audit_log, clock))
  /\ UNCHANGED tables

\* integrity_status, one of its queries fails in the store: 500.
IntegrityStatusError(p) ==
  /\ CanAsk(p)
  /\ Answer("integrity_status", <<>>, "storage", [status |-> 500, body |-> None])
  /\ UNCHANGED tables

\* backup_status.  in_recovery tells whether the store is a replica in
\* recovery, replayed is the time of its last replayed transaction, if any,
\* and failed tells whether the replication-lag query fails.
BackupStatus(p, in_recovery, replayed, failed) ==
  /\ CanAsk(p)
  /\ Answer("backup_status", <<in_recovery, replayed, failed>>, "none",
            backup_status(domain_ratings, rating_audit_log,
                          replication_lag(clock, in_recovery, replayed, failed)))
  /\ UNCHANGED tables

\* backup_status, one of its three counting queries fails in the store: 500.
BackupStatusError(p) ==
  /\ CanAsk(p)
  /\ Answer("backup_status", <<>>, "storage", [status |-> 500, body |-> None])
  /\ UNCHANGED tables

\* get_domain_rating
GetDomainRating(p, domain_url) ==
  /\ CanAsk(p)
  /\ Answer("get_domain_rating", <<domain_url>>, "none",
            get_domain_rating(domain_rating_aggregates, domain_url))
  /\ UNCHANGED tables

\* get_domain_rating, the query fails in the store: 500.
GetDomainRatingError(p, domain_url) ==
  /\ CanAsk(p)
  /\ Answer("get_domain_rating", <<domain_url>>, "storage",
            [status |-> 500, body |-> None])
  /\ UNCHANGED tables

\* get_domain_reviews
GetDomainReviews(p, domain_url) ==
  /\ CanAsk(p)
  /\ \E r \in get_domain_reviews(domain_ratings, domain_url) :
       Answer("get_domain_reviews", <<domain_url>>, "none", r)
  /\ UNCHANGED tables

\* get_domain_reviews, the query fails in the store: 500.
GetDomainReviewsError(p, domain_url) ==
  /\ CanAsk(p)
  /\ Answer("get_domain_reviews", <<domain_url>>, "storage",
            [status |-> 500, body |-> None])
  /\ UNCHANGED tables

\* The statements of a submit_rating request.
Submit(p, requests) ==
  \/ \E req \in requests : SubmitRatingInvalid(p, req)
  \/ \E req \in requests : SubmitRatingUpsert(p, req)
  \/ \E req \in requests : SubmitRatingUpsertError(p, req)
  \/ RefreshAggregatesSelect(p)
  \/ RefreshAggregatesWrite(p)
  \/ RefreshAggregatesError(p)

\* The submission pipeline alone, over every request.
NextSubmit == \E p \in Procs : Submit(p, Requests)

SpecSubmit == Init /\ [][NextSubmit]_vars

\* The submissions of one handler, one after the other: every ledger the
\* pipeline can write, without the interleavings that write the same ledger.
NextLedger == Submit("h1", Requests)

SpecLedger == Init /\ [][NextLedger]_vars

\* The requests of the whole server's specification: one domain, a
\* resubmitting user, a second user and a request that is rejected.
FewRequests ==
  {r \in Requests : /\ r.domain_url = <<"a">>
                    /\ r.user_hash = <<"v">> => r.trust_level = 5
                    /\ ~ValidRequest(r) => r.trust_level = 0}

\* pg_last_xact_replay_timestamp(): NULL, or a time up to now.
ReplayTimes == {None, Some(clock), Some(clock - 1)}

\* Every handler of the server.
Next ==
  \E p \in Procs :
    \/ Submit(p, FewRequests)
    \/ \E id \in RatingIds, w \in Voters, b \in BOOLEAN : VoteHelpful(p, id, w, b)
    \/ \E id \in RatingIds, w \in Voters, s \in Reasons : ReportRating(p, id, w, s)
    \/ ModerationError(p)
    \/ \E id \in RatingIds : VerifyRatingIntegrity(p, id)
    \/ \E id \in RatingIds : VerifyRatingIntegrityError(p, id)
    \/ IntegrityStatus(p)
    \/ IntegrityStatusError(p)
    \/ \E in_recovery \in BOOLEAN :
         BackupStatus(p, in_recovery, Some(clock - 1), FALSE)
    \/ GetDomainRating(p, <<"a">>)
    \/ GetDomainReviews(p, <<"a">>)

Spec == Init /\ [][Next]_vars

\* The submits, and the queries of the aggregates and of the backup status
\* on a primary and on a replica.
NextQuery ==
  \E p \in Procs :
    \/ Submit(p, FewRequests)
    \/ \E d \in Domains : GetDomainRating(p, d)
    \/ \E d \in Domains : GetDomainRatingError(p, d)
    \/ \E in_recovery, failed \in BOOLEAN, replayed \in ReplayTimes :
         BackupStatus(p, in_recovery, replayed, failed)
    \/ BackupStatusError(p)

SpecQuery == Init /\ [][NextQuery]_vars

\* ------------------------------------------------------------------ verification

\* The rows of domain_ratings that verify may find: one per id of the path.
StoredRatings ==
  { NewRating(id, 1, [domain_url |-> <<"a">>,
                      user_hash |-> IF id = 1 THEN <<"u">> ELSE <<"v">>,
                      trust_level |-> 5, bias_level |-> 2, comment |-> None]) :
      id \in RatingIds }

\* A row of rating_audit_log that verify may find: of one of the ratings,
\* with one of two timestamps, and with the change_hash of its values or,
\* its trust_level having been changed in the table since it was written,
\* with the change_hash of the values it was written with.
StoredEntry(id, shape) ==
  LET rating_id == shape[1]
      user_hash == IF rating_id = 1 THEN <<"u">> ELSE <<"v">>
  IN [id |-> id, rating_id |-> rating_id,
      action_type |-> IF shape[2] = 1 THEN "create" ELSE "update",
      domain_url |-> <<"a">>, user_hash |-> user_hash,
      trust_level |-> Some(5), bias_level |-> Some(2), comment |-> None,
      changed_at |-> shape[2],
      change_hash |-> compute_change_hash(rating_id, <<"a">>, user_hash,
                        IF shape[3] THEN Some(5) ELSE Some(1), Some(2), None)]

\* The contents of rating_audit_log that verify is run against.
StoredLedgers ==
  UNION { { [k \in 1..n |-> StoredEntry(k, f[k])] :
              f \in [1..n -> RatingIds \X (1..2) \X BOOLEAN] } :
          n \in 0..MaxEntries }

\* The store as verify may find it: any of the ratings, with any ledger,
\* whether the submits wrote it or someone with write access to the tables
\* changed it, and no request in progress.
InitVerify ==
  /\ domain_ratings \in SUBSET StoredRatings
  /\ domain_ratings_id_seq = 3
  /\ rating_audit_log \in StoredLedgers
  /\ domain_rating_aggregates = [d \in Domains |-> None]
  /\ rating_votes = {}
  /\ rating_reports = <<>>
  /\ clock = 3
  /\ pc = [p \in Procs |-> "idle"]
  /\ cur = [p \in Procs |-> None]
  /\ snap = [p \in Procs |-> None]
  /\ hist = <<>>
  /\ answer = None
  /\ others = MaxOthers
  /\ desktop_ratings = {}
  /\ desktop_rowid = 1
  /\ desktop_aggregates = [d \in DomainIds |-> None]
  /\ desktop_now = 1
  /\ desktop_result = None
  /\ desktop_commands = 0
  /\ InitSession({"earthservers.db"})

\* The requests of the integrity checker against any contents of the tables.
NextVerify ==
  \E p \in Procs :
    \/ \E id \in RatingIds : VerifyRatingIntegrity(p, id)
    \/ \E id \in RatingIds : VerifyRatingIntegrityError(p, id)
    \/ IntegrityStatus(p)
    \/ IntegrityStatusError(p)

SpecVerify == InitVerify /\ [][NextVerify]_vars

\* ------------------------------------------------------------------ digests

\* The values of (domain_url, user_hash, trust_level, bias_level, comment)
\* of an entry: texts with and without the delimiter, a level that is
\* missing, a comment that is missing and one that is empty.
HashInputs ==
  {<<"a">>, <<"a", "|", "b">>} \X {<<"u">>, <<"b", "|", "u">>}
    \X {None, Some(5)} \X {Some(2)} \X {None, Some(<<>>), Some(<<"c">>)}

\* The entry of rating 1 that the ledger writer makes of these values.
WrittenEntry(id, f) ==
  [id |-> id, rating_id |-> 1, action_type |-> IF id = 1 THEN "create" ELSE "update",
   domain_url |-> f[1], user_hash |-> f[2], trust_level |-> f[3],
   bias_level |-> f[4], comment |-> f[5], changed_at |-> id,
   change_hash |-> compute_change_hash(1, f[1], f[2], f[3], f[4], f[5])]

\* Rating 1 with a ledger of two entries of any of these values.
InitHash ==
  /\ domain_ratings = {r \in StoredRatings : r.id = 1}
  /\ domain_ratings_id_seq = 3
  /\ rating_audit_log \in
       {<<WrittenEntry(1, f), WrittenEntry(2, g)>> : f, g \in HashInputs}
  /\ domain_rating_aggregates = [d \in Domains |-> None]
  /\ rating_votes = {}
  /\ rating_reports = <<>>
  /\ clock = 3
  /\ pc = [p \in Procs |-> "idle"]
  /\ cur = [p \in Procs |-> None]
  /\ snap = [p \in Procs |-> None]
  /\ hist = <<>>
  /\ answer = None
  /\ others = MaxOthers
  /\ desktop_ratings = {}
  /\ desktop_rowid = 1
  /\ desktop_aggregates = [d \in DomainIds |-> None]
  /\ desktop_now = 1
  /\ desktop_result = None
  /\ desktop_commands = 0
  /\ InitSession({"earthservers.db"})

\* The integrity checker recomputes the digests of the ledger.
NextHash == \E p \in Procs : VerifyRatingIntegrity(p, 1)

SpecHash == InitHash /\ [][NextHash]_vars

\* ------------------------------------------------------------------ readers

\* Number of vote, report and review requests of one behaviour.
MaxRequests == 3

\* Three submits that returned 200, in this order: u and v rate domain a,
\* then u rates domain b.
StoredSubmits ==
  LET req(d, u) == [domain_url |-> d, user_hash |-> u, trust_level |-> 5,
                    bias_level |-> 2, comment |-> None]
  IN << req(<<"a">>, <<"u">>), req(<<"a">>, <<"v">>), req(<<"b">>, <<"u">>) >>

\* The tables after the first n of these submits, made one after the other
\* on an empty store with one tick of the clock each.
RECURSIVE StoreAfter(_)
StoreAfter(n) ==
  IF n = 0
  THEN [rows |-> {}, idseq |-> 1, log |-> <<>>,
        aggregates |-> [d \in Domains |-> None]]
  ELSE LET before == StoreAfter(n - 1)
           req == StoredSubmits[n]
           r == UpsertRating(before.rows, before.idseq, n, req)
           row == AggregateRow(r.rows, req.domain_url)
       IN [rows |-> r.rows, idseq |-> r.idseq,
           log |-> AuditAppend(before.log, r.row, n),
           aggregates |-> [before.aggregates EXCEPT ![req.domain_url] =
                             Some(row[1] @@ [updated_at |-> n + 1])]]

\* The store after the three submits, no votes or reports yet, and no
\* request in progress.
InitModeration ==
  /\ domain_ratings = StoreAfter(3).rows
  /\ domain_ratings_id_seq = StoreAfter(3).idseq
  /\ rating_audit_log = StoreAfter(3).log
  /\ domain_rating_aggregates = StoreAfter(3).aggregates
  /\ rating_votes = {}
  /\ rating_reports = <<>>
  /\ clock = 4
  /\ pc = [p \in Procs |-> "idle"]
  /\ cur = [p \in Procs |-> None]
  /\ snap = [p \in Procs |-> None]
  /\ hist = <<>>
  /\ answer = None
  /\ others = MaxRequests
  /\ desktop_ratings = {}
  /\ desktop_rowid = 1
  /\ desktop_aggregates = [d \in DomainIds |-> None]
  /\ desktop_now = 1
  /\ desktop_result = None
  /\ desktop_commands = 0
  /\ InitSession({"earthservers.db"})

\* The voter_hash and reporter_hash of the requests.
Hashes == Voters \cup {<<"x">>}

\* The votes, reports and review queries of the readers of a domain.
NextModeration ==
  \E p \in Procs :
    \/ \E id \in RatingIds, w \in Hashes, b \in BOOLEAN : VoteHelpful(p, id, w, b)
    \/ \E id \in RatingIds, w \in Hashes, s \in Reasons : ReportRating(p, id, w, s)
    \/ ModerationError(p)
    \/ \E d \in Domains : GetDomainReviews(p, d)
    \/ \E d \in Domains : GetDomainReviewsError(p, d)

SpecModeration == InitModeration /\ [][NextModeration]_vars

\* ------------------------------------------------------------------ desktop

\* The state of the ratings server.
server == <<tables, domain_ratings_id_seq, clock, pc, cur, snap, hist, answer,
            others>>

\* DomainRating values the frontend sends to submit_rating: no id, an empty
\* created_at, levels in range and, for one pair, out of range.
DesktopRatings ==
  { [id |-> None, domain_id |-> d, user_id |-> u, trust_rating |-> l[1],
     bias_rating |-> l[2], review_text |-> l[3], created_at |-> <<>>,
     updated_at |-> None, helpful_count |-> 0, reported |-> FALSE] :
      d \in DomainIds, u \in Users, l \in ValidPayloads }
  \cup
  { [id |-> None, domain_id |-> 1, user_id |-> <<"u">>, trust_rating |-> l[1],
     bias_rating |-> l[2], review_text |-> None, created_at |-> <<>>,
     updated_at |-> None, helpful_count |-> 0, reported |-> FALSE] :
      l \in {<<6, 2>>, <<5, 0>>} }

\* fn chrono_now: the seconds since the epoch, as text
chrono_now(seconds) == IntToString(seconds)

\* CHECK (trust_rating BETWEEN 1 AND 5), CHECK (bias_rating BETWEEN 1 AND 4)
CheckLevels(rating) ==
  /\ rating.trust_rating >= 1 /\ rating.trust_rating <= 5
  /\ rating.bias_rating >= 1 /\ rating.bias_rating <= 4

RECURSIVE JsonItems(_)
JsonItems(v) ==
  IF v = <<>> THEN <<>>
  ELSE IF Len(v) = 1 THEN IntToString(v[1])
  ELSE IntToString(v[1]) \o <<",">> \o JsonItems(Tail(v))

\* serde_json::to_string(&Vec<i64>)
JsonToString(v) == <<"[">> \o JsonItems(v) \o <<"]">>

IsDigit(c) == \E n \in 0..9 : Digit(n) = c
DigitValue(c) == CHOOSE n \in 0..9 : Digit(n) = c

\* The numbers between the brackets of a JSON array, None when the text is
\* not a comma separated list of numbers.  num is the number being read.
RECURSIVE JsonNumbers(_, _, _)
JsonNumbers(chars, num, acc) ==
  IF chars = <<>>
  THEN IF num = None THEN (IF acc = <<>> THEN Some(acc) ELSE None)
       ELSE Some(Append(acc, num[1]))
  ELSE IF IsDigit(Head(chars))
  THEN JsonNumbers(Tail(chars),
                   Some((IF num = None THEN 0 ELSE num[1]) * 10
                          + DigitValue(Head(chars))), acc)
  ELSE IF Head(chars) = "," /\ num # None
  THEN JsonNumbers(Tail(chars), None, Append(acc, num[1]))
  ELSE None

\* serde_json::from_str::<Vec<i64>>: Some(vector), or None for an error
JsonFromStr(text) ==
  IF Len(text) < 2 \/ Head(text) # "[" \/ text[Len(text)] # "]" THEN None
  ELSE JsonNumbers(SubSeq(text, 2, Len(text) - 1), None, <<>>)

\* COALESCE(AVG(CAST(column AS REAL)), 0)
AvgOrZero(rows, column, default) ==
  IF rows = {} THEN <<0, 1>> ELSE Avg(rows, column)

\* COALESCE(AVG(CAST(column AS REAL)), default)
AvgOrDefault(rows, column, default) ==
  IF rows = {} THEN default ELSE Avg(rows, column)

\* SELECT column, COUNT(*) ... GROUP BY column, stored in a zero-filled
\* vector with one place per level.
CountsByLevel(rows, column, levels) ==
  [i \in levels |-> Cardinality({r \in rows : r[column] = i})]

\* The columns of the aggregate row that update_aggregates computes from the
\* rows of a domain.
ComputedAggregate(sub, now) ==
  [avg_trust |-> AvgOrDefault(sub, "trust_rating", <<3, 1>>),
   avg_bias |-> AvgOrDefault(sub, "bias_rating", <<5, 2>>),
   total_ratings |-> Cardinality(sub),
   trust_distribution |-> JsonToString(CountsByLevel(sub, "trust_rating", 1..5)),
   bias_distribution |-> JsonToString(CountsByLevel(sub, "bias_rating", 1..4)),
   last_updated |-> Some(now)]

\* An aggregate kept by adding the counts of the rows to the stored total.
update_aggregates_incremental(rows, aggregates, domain_id, now) ==
  LET sub == {r \in rows : r.domain_id = domain_id}
      old == IF aggregates[domain_id] = None THEN 0
             ELSE aggregates[domain_id][1].total_ratings
  IN [aggregates EXCEPT ![domain_id] =
        Some([ComputedAggregate(sub, now) EXCEPT
                !.total_ratings = old + Cardinality(sub)])]

\* RatingManager::update_aggregates: the aggregates table after it
update_aggregates(rows, aggregates, domain_id, now) ==
  LET sub == {r \in rows : r.domain_id = domain_id}
  IN [aggregates EXCEPT ![domain_id] = Some(ComputedAggregate(sub, now))]

\* RatingManager::get_aggregate
get_aggregate(aggregates, domain_id) ==
  IF aggregates[domain_id] = None THEN None
  ELSE LET row == aggregates[domain_id][1]
           trust_dist == JsonFromStr(row.trust_distribution)
           bias_dist == JsonFromStr(row.bias_distribution)
       IN Some([domain_id |-> domain_id,
                avg_trust |-> row.avg_trust,
                avg_bias |-> row.avg_bias,
                total_ratings |-> row.total_ratings,
                trust_distribution |->
                  IF trust_dist = None THEN [i \in 1..5 |-> 0] ELSE trust_dist[1],
                bias_distribution |->
                  IF bias_dist = None THEN [i \in 1..4 |-> 0] ELSE bias_dist[1],
                last_updated |-> row.last_updated])

\* q < n / d, for a float q kept as a fraction
LessThan(q, n, d) == q[1] * d < n * q[2]

\* RatingManager::get_rating_summary, without the category scores
get_rating_summary(aggregates, domain_id, domain_url) ==
  LET aggregate == get_aggregate(aggregates, domain_id)
      avg_trust == IF aggregate = None THEN <<3, 1>> ELSE aggregate[1].avg_trust
      avg_bias == IF aggregate = None THEN <<5, 2>> ELSE aggregate[1].avg_bias
      total_ratings == IF aggregate = None THEN 0 ELSE aggregate[1].total_ratings
  IN [domain_url |-> domain_url,
      avg_trust |-> avg_trust,
      avg_bias |-> avg_bias,
      total_ratings |-> total_ratings,
      trust_label |-> IF LessThan(avg_trust, 3, 2) THEN "Very Low"
                      ELSE IF LessThan(avg_trust, 5, 2) THEN "Low"
                      ELSE IF LessThan(avg_trust, 7, 2) THEN "Moderate"
                      ELSE IF LessThan(avg_trust, 9, 2) THEN "High"
                      ELSE "Very High",
      bias_label |-> IF LessThan(avg_bias, 3, 2) THEN "Left"
                     ELSE IF LessThan(avg_bias, 5, 2) THEN "Center-Left"
                     ELSE IF LessThan(avg_bias, 7, 2) THEN "Center-Right"
                     ELSE "Right"]

CanCommand == desktop_commands < MaxCommands

\* The record of a command: its name, whether it returned Ok, the value
\* returned, the domain whose aggregate it recomputed, if it did, and the
\* domain whose aggregate the command before it recomputed.
CommandResult(op, ok, value, recomputed) ==
  Some([op |-> op, ok |-> ok, value |-> value, recomputed |-> recomputed,
        previous |-> IF desktop_result = None THEN None
                     ELSE desktop_result[1].recomputed])

\* The points where a command can fail in the store.
FailurePoints == {"none", "lookup", "write", "aggregates"}

\* submit_rating of the desktop.  The lookup of the existing row turns an
\* error into "no row" (.ok()); the UPDATE or INSERT and update_aggregates
\* return their errors, each after what was written before it is committed.
\* later is the time update_aggregates reads.
DesktopSubmitRating(rating, later, fail) ==
  /\ CanCommand
  /\ LET now == chrono_now(desktop_now)
         found == {r \in desktop_ratings : /\ r.domain_id = rating.domain_id
                                          /\ r.user_id = rating.user_id}
         existing == IF fail = "lookup" \/ found = {} THEN None
                     ELSE Some((CHOOSE r \in found : TRUE).id)
         id == IF existing = None THEN desktop_rowid ELSE existing[1]
         written ==
           IF existing = None
           THEN desktop_ratings \cup
                  {[id |-> id, domain_id |-> rating.domain_id,
                    user_id |-> rating.user_id,
                    trust_rating |-> rating.trust_rating,
                    bias_rating |-> rating.bias_rating,
                    review_text |-> rating.review_text, created_at |-> now,
                    updated_at |-> None, helpful_count |-> 0,
                    reported |-> FALSE]}
           ELSE {IF r.id = id
                 THEN [r EXCEPT !.trust_rating = rating.trust_rating,
                                !.bias_rating = rating.bias_rating,
                                !.review_text = rating.review_text,
                                !.updated_at = Some(now)]
                 ELSE r : r \in desktop_ratings}
         rejected == \/ fail = "write"
                     \/ ~CheckLevels(rating)
                     \/ existing = None /\ found # {}
     IN IF rejected
        THEN /\ desktop_result' = CommandResult("submit_rating", FALSE, None, None)
             /\ UNCHANGED <<desktop_ratings, desktop_rowid, desktop_aggregates>>
        ELSE /\ desktop_ratings' = written
             /\ desktop_rowid' = IF existing = None THEN desktop_rowid + 1
                                 ELSE desktop_rowid
             /\ IF fail = "aggregates"
                THEN /\ desktop_result' =
                          CommandResult("submit_rating", FALSE, None, None)
                     /\ UNCHANGED desktop_aggregates
                ELSE /\ desktop_aggregates' =
                          update_aggregates(written, desktop_aggregates,
                                            rating.domain_id, chrono_now(later))
                     /\ desktop_result' =
                          CommandResult("submit_rating", TRUE,
                            Some([rating EXCEPT
                                    !.id = Some(id),
                                    !.created_at = IF existing = None THEN now
                                                   ELSE rating.created_at,
                                    !.updated_at = IF existing = None THEN None
                                                   ELSE Some(now)]),
                            Some(rating.domain_id))
  /\ desktop_now' = later
  /\ desktop_commands' = desktop_commands + 1
  /\ UNCHANGED server

\* delete_rating of the desktop.  The lookup of the row's domain turns an
\* error into "no domain" (.ok()), and then the aggregate is not updated.
DesktopDeleteRating(rating_id, user_id, later, fail) ==
  /\ CanCommand
  /\ LET found == {r \in desktop_ratings : r.id = rating_id /\ r.user_id = user_id}
         domain_id == IF fail = "lookup" \/ found = {} THEN None
                      ELSE Some((CHOOSE r \in found : TRUE).domain_id)
         affected == Cardinality(found)
         remaining == desktop_ratings \ found
     IN IF fail = "write"
        THEN /\ desktop_result' = CommandResult("delete_rating", FALSE, None, None)
             /\ UNCHANGED <<desktop_ratings, desktop_aggregates>>
        ELSE /\ desktop_ratings' = remaining
             /\ IF affected > 0 /\ domain_id # None
                THEN IF fail = "aggregates"
                     THEN /\ desktop_result' =
                               CommandResult("delete_rating", FALSE, None, None)
                          /\ UNCHANGED desktop_aggregates
                     ELSE /\ desktop_aggregates' =
                               update_aggregates(remaining, desktop_aggregates,
                                                 domain_id[1], chrono_now(later))
                          /\ desktop_result' =
                               CommandResult("delete_rating", TRUE, Some(TRUE),
                                             domain_id)
                ELSE /\ desktop_result' =
                          CommandResult("delete_rating", TRUE,
                                        Some(affected > 0), None)
                     /\ UNCHANGED desktop_aggregates
  /\ desktop_now' = later
  /\ desktop_commands' = desktop_commands + 1
  /\ UNCHANGED <<server, desktop_rowid>>

\* RatingManager::update_aggregates, called by itself.
DesktopUpdateAggregates(domain_id, later, fail) ==
  /\ CanCommand
  /\ IF fail = "aggregates"
     THEN /\ desktop_result' = CommandResult("update_aggregates", FALSE, None, None)
          /\ UNCHANGED desktop_aggregates
     ELSE /\ desktop_aggregates' =
               update_aggregates(desktop_ratings, desktop_aggregates, domain_id,
                                 chrono_now(later))
          /\ desktop_result' =
               CommandResult("update_aggregates", TRUE, None, Some(domain_id))
  /\ desktop_now' = later
  /\ desktop_commands' = desktop_commands + 1
  /\ UNCHANGED <<server, desktop_ratings, desktop_rowid>>

\* get_rating_aggregate
DesktopGetAggregate(domain_id) ==
  /\ CanCommand
  /\ desktop_result' =
       CommandResult("get_aggregate", TRUE,
                     Some(get_aggregate(desktop_aggregates, domain_id)), None)
  /\ desktop_commands' = desktop_commands + 1
  /\ UNCHANGED <<server, desktop_ratings, desktop_rowid, desktop_aggregates,
                 desktop_now>>

\* get_rating_summary
DesktopGetRatingSummary(domain_id, domain_url) ==
  /\ CanCommand
  /\ desktop_result' =
       CommandResult("get_rating_summary", TRUE,
                     Some(get_rating_summary(desktop_aggregates, domain_id,
                                             domain_url)), None)
  /\ desktop_commands' = desktop_commands + 1
  /\ UNCHANGED <<server, desktop_ratings, desktop_rowid, desktop_aggregates,
                 desktop_now>>

\* A rating command of the desktop application.
RatingCommand ==
  \E later \in desktop_now..(desktop_now + 1) :
    \/ \E rating \in DesktopRatings, fail \in FailurePoints :
         DesktopSubmitRating(rating, later, fail)
    \/ \E id \in RatingIds, u \in Users, fail \in FailurePoints :
         DesktopDeleteRating(id, u, later, fail)
    \/ \E d \in DomainIds, fail \in {"none", "aggregates"} :
         DesktopUpdateAggregates(d, later, fail)
    \/ \E d \in DomainIds : DesktopGetAggregate(d)
    \/ \E d \in DomainIds : DesktopGetRatingSummary(d, <<"a">>)

\* The rating commands of the desktop application, one at a time: each runs
\* from its state.lock() to its return before the next gets the lock.
NextDesktop == RatingCommand /\ UNCHANGED <<threads, session>>

SpecDesktop == Init /\ [][NextDesktop]_vars

\* ------------------------------------------------------------------ incognito

\* A toggle that returns the state it found.
toggle_incognito_returns_old(current) ==
  [stored |-> ~current, returned |-> current]

\* fn is_incognito: INCOGNITO_MODE.load
is_incognito(flag) == flag

\* fn toggle_incognito, from the value it loads: what it stores and returns.
toggle_incognito(current) ==
  LET new_state == ~current
  IN [stored |-> new_state, returned |-> new_state]

CanCall == session_commands < MaxCalls

\* The record of an incognito command: its name, the value returned, if any,
\* the flag when it was called, and the name of the incognito command before.
IncognitoResult(op, value) ==
  Some([op |-> op, value |-> value, before |-> incognito_mode,
        previous |-> IF incognito_result = None THEN "none"
                     ELSE incognito_result[1].op])

\* The commands toggle_incognito, set_incognito and get_incognito_status are
\* not async: they run on the main thread, one at a time, without the lock.
ToggleIncognito ==
  /\ CanCall
  /\ LET r == toggle_incognito(is_incognito(incognito_mode))
     IN /\ incognito_mode' = r.stored
        /\ incognito_result' = IncognitoResult("toggle_incognito", Some(r.returned))
  /\ session_commands' = session_commands + 1
  /\ UNCHANGED <<server, ratings_store, threads, profile_db_path, profile_db,
                 profile_result>>

\* set_incognito: enable_incognito or disable_incognito
SetIncognito(enabled) ==
  /\ CanCall
  /\ incognito_mode' = enabled
  /\ incognito_result' = IncognitoResult("set_incognito", None)
  /\ session_commands' = session_commands + 1
  /\ UNCHANGED <<server, ratings_store, threads, profile_db_path, profile_db,
                 profile_result>>

\* get_incognito_status
GetIncognitoStatus ==
  /\ CanCall
  /\ incognito_result' =
       IncognitoResult("get_incognito_status", Some(is_incognito(incognito_mode)))
  /\ session_commands' = session_commands + 1
  /\ UNCHANGED <<server, ratings_store, threads, incognito_mode,
                 profile_db_path, profile_db, profile_result>>

\* ------------------------------------------------------------------ profiles

\* The paths a ProfileManager is made with: the application's database file
\* and the in-memory database of the tests.
DbPaths == {"earthservers.db", ":memory:"}

\* Names and icons the frontend sends.
ProfileNames == {"Default", "Test Profile"}
ProfileIcons == {None, Some("star")}
ProfileIds == 1..3

\* Connection::open(db_path): the file's database, or a new empty database
\* for ":memory:", which every open creates afresh.
ConnectionOpen(path, db) ==
  IF path = ":memory:" THEN EmptyDatabase ELSE db

\* The file after the connection is dropped: what the connection wrote, or
\* for ":memory:" nothing, because the database goes with the connection.
ConnectionDrop(path, db, conn) ==
  IF path = ":memory:" THEN db ELSE conn

\* INSERT INTO privacy_settings ... VALUES (?1, NULL, 0)
DefaultSettings(profile_id) ==
  [profile_id |-> profile_id, auto_delete_days |-> None,
   ai_enabled_in_incognito |-> FALSE]

\* Profile
Profile(id, name, icon, created_at, is_active) ==
  [id |-> Some(id), name |-> name, icon |-> icon, created_at |-> created_at,
   is_active |-> is_active]

\* fn create_default_profile
create_default_profile(conn, now) ==
  [conn EXCEPT
     !.profiles = @ \cup {Profile(conn.seq, "Default", Some("user"), now, TRUE)},
     !.privacy_settings = @ \cup {DefaultSettings(conn.seq)},
     !.seq = @ + 1]

\* fn init: CREATE TABLE IF NOT EXISTS for both tables, and the default
\* profile when profiles is empty.
init(conn, now) ==
  LET created == [conn EXCEPT !.tables = TRUE]
  IN [conn |-> IF created.profiles = {} THEN create_default_profile(created, now)
               ELSE created,
      ok |-> TRUE, value |-> None]

\* The points where create_profile can fail in the store.
CreateFailures == {"none", "insert", "settings"}

\* fn create_profile.  The INSERT INTO profiles fails without the table, on
\* a name that is taken (name is UNIQUE) or in the store; it is committed
\* before the INSERT INTO privacy_settings, which may fail after it.
create_profile(conn, now, name, icon, fail) ==
  IF \/ ~conn.tables
     \/ fail = "insert"
     \/ \E r \in conn.profiles : r.name = name
  THEN [conn |-> conn, ok |-> FALSE, value |-> None]
  ELSE LET profile_id == conn.seq
           inserted == [conn EXCEPT
                          !.profiles = @ \cup
                            {Profile(profile_id, name, icon, now, FALSE)},
                          !.seq = @ + 1]
       IN IF fail = "settings"
          THEN [conn |-> inserted, ok |-> FALSE, value |-> None]
          ELSE [conn |-> [inserted EXCEPT !.privacy_settings =
                            @ \cup {DefaultSettings(profile_id)}],
                ok |-> TRUE,
                value |-> Some(Profile(profile_id, name, icon, now, FALSE))]

\* fn get_active_profile: the first row with is_active = 1, if any.
get_active_profile(conn) ==
  LET active == {r \in conn.profiles : r.is_active}
  IN IF ~conn.tables THEN [conn |-> conn, ok |-> FALSE, value |-> None]
     ELSE [conn |-> conn, ok |-> TRUE,
           value |-> IF active = {} THEN Some(None)
                     ELSE Some(Some([(CHOOSE r \in active : TRUE) EXCEPT
                                       !.is_active = TRUE]))]

\* fn switch_profile: every profile is deactivated, the one with the id is
\* activated and read back; no such profile is an error, after the updates.
switch_profile(conn, profile_id) ==
  LET switched == [conn EXCEPT !.profiles =
                     {[r EXCEPT !.is_active = (r.id = Some(profile_id))] : r \in @}]
      found == {r \in switched.profiles : r.id = Some(profile_id)}
  IN IF ~conn.tables THEN [conn |-> conn, ok |-> FALSE, value |-> None]
     ELSE IF found = {} THEN [conn |-> switched, ok |-> FALSE, value |-> None]
     ELSE [conn |-> switched, ok |-> TRUE,
           value |-> Some([(CHOOSE r \in found : TRUE) EXCEPT !.is_active = TRUE])]

\* The points where delete_profile can fail in the store.
DeleteFailures == {"none", "profile", "activate"}

\* fn delete_profile.  The last profile and a profile that does not exist
\* are errors before anything is written.  Each DELETE and the final UPDATE
\* are committed one by one: the DELETE FROM profiles may fail after the
\* settings are gone, and the UPDATE that activates the profile of the
\* smallest id, run when the deleted one was active, after the profile is.
delete_profile(conn, profile_id, fail) ==
  LET found == {r \in conn.profiles : r.id = Some(profile_id)}
      is_active == \E r \in found : r.is_active
      settings == [conn EXCEPT !.privacy_settings =
                     {r \in @ : r.profile_id # profile_id}]
      deleted == [settings EXCEPT !.profiles = @ \ found]
      ids == {r.id[1] : r \in deleted.profiles}
      activated == [deleted EXCEPT !.profiles =
                      {[r EXCEPT !.is_active =
                          (r.is_active \/ \A i \in ids : r.id[1] <= i)] : r \in @}]
  IN IF \/ ~conn.tables
        \/ Cardinality(conn.profiles) <= 1
        \/ found = {}
     THEN [conn |-> conn, ok |-> FALSE, value |-> None]
     ELSE IF fail = "profile"
     THEN [conn |-> settings, ok |-> FALSE, value |-> None]
     ELSE IF ~is_active THEN [conn |-> deleted, ok |-> TRUE, value |-> None]
     ELSE IF fail = "activate"
     THEN [conn |-> deleted, ok |-> FALSE, value |-> None]
     ELSE [conn |-> activated, ok |-> TRUE, value |-> None]

\* A profile command runs under the lock from Connection::open to its
\* return.  Its record: the name, the arguments, whether it returned Ok, the
\* value, and whether init has returned Ok by now.
ProfileCommand(op, arg, r) ==
  /\ CanCall
  /\ profile_db' = ConnectionDrop(profile_db_path, profile_db, r.conn)
  /\ profile_result' =
       Some([op |-> op, arg |-> arg, ok |-> r.ok, value |-> r.value,
             initialized |-> \/ op = "init" /\ r.ok
                             \/ /\ profile_result # None
                                /\ profile_result[1].initialized])
  /\ session_commands' = session_commands + 1
  /\ UNCHANGED <<server, ratings_store, threads, incognito_mode,
                 incognito_result, profile_db_path>>

\* ProfileManager::init
ProfileInit ==
  ProfileCommand("init", <<>>,
                 init(ConnectionOpen(profile_db_path, profile_db),
                      chrono_now(desktop_now)))

\* create_profile
CreateProfile(name, icon, fail) ==
  ProfileCommand("create_profile", <<name, icon, fail>>,
                 create_profile(ConnectionOpen(profile_db_path, profile_db),
                                chrono_now(desktop_now), name, icon, fail))

\* get_active_profile
GetActiveProfile ==
  ProfileCommand("get_active_profile", <<>>,
                 get_active_profile(ConnectionOpen(profile_db_path, profile_db)))

\* switch_profile
SwitchProfile(profile_id) ==
  ProfileCommand("switch_profile", <<profile_id>>,
                 switch_profile(ConnectionOpen(profile_db_path, profile_db),
                                profile_id))

\* delete_profile
DeleteProfile(profile_id, fail) ==
  ProfileCommand("delete_profile", <<profile_id, fail>>,
                 delete_profile(ConnectionOpen(profile_db_path, profile_db),
                                profile_id, fail))

\* The desktop after setup with a ProfileManager at either path.
InitProfile ==
  /\ domain_ratings = {}
  /\ domain_ratings_id_seq = 1
  /\ rating_audit_log = <<>>
  /\ domain_rating_aggregates = [d \in Domains |-> None]
  /\ rating_votes = {}
  /\ rating_reports = <<>>
  /\ clock = 1
  /\ pc = [p \in Procs |-> "idle"]
  /\ cur = [p \in Procs |-> None]
  /\ snap = [p \in Procs |-> None]
  /\ hist = <<>>
  /\ answer = None
  /\ others = MaxOthers
  /\ desktop_ratings = {}
  /\ desktop_rowid = 1
  /\ desktop_aggregates = [d \in DomainIds |-> None]
  /\ desktop_now = 1
  /\ desktop_result = None
  /\ desktop_commands = 0
  /\ InitSession(DbPaths)

\* The incognito and profile commands of the desktop application.
NextSession ==
  \/ ToggleIncognito
  \/ \E enabled \in BOOLEAN : SetIncognito(enabled)
  \/ GetIncognitoStatus
  \/ ProfileInit
  \/ \E name \in ProfileNames, icon \in ProfileIcons, fail \in CreateFailures :
       CreateProfile(name, icon, fail)
  \/ GetActiveProfile
  \/ \E id \in ProfileIds : SwitchProfile(id)
  \/ \E id \in ProfileIds, fail \in DeleteFailures : DeleteProfile(id, fail)

SpecSession == InitProfile /\ [][NextSession]_vars

\* ------------------------------------------------------------------ scheduling

\* A lock that stays held after the command has returned.
KeepLock(t) == desktop_lock' = desktop_lock

\* The MutexGuard of state.lock() is dropped when the command returns.
Unlock(t) == desktop_lock' = None

\* Commands invoked and not yet returned.
InCommand == {t \in Threads : desktop_pc[t] # "idle"}

\* A thread starts an async command and calls state.lock().
Invoke(t) ==
  /\ desktop_pc[t] = "idle"
  /\ desktop_commands + Cardinality(InCommand) < MaxCommands
  /\ desktop_pc' = [desktop_pc EXCEPT ![t] = "waiting"]
  /\ UNCHANGED <<server, ratings_store, desktop_lock, session>>

\* state.lock() returns: the thread holds Mutex<AppState>.
Acquire(t) ==
  /\ desktop_pc[t] = "waiting"
  /\ desktop_lock = None
  /\ desktop_lock' = Some(t)
  /\ desktop_pc' = [desktop_pc EXCEPT ![t] = "running"]
  /\ UNCHANGED <<server, ratings_store, session>>

\* The rating a thread submits and the domain it reads.
LiveRating == CHOOSE r \in DesktopRatings : CheckLevels(r) /\ r.domain_id = 1

\* The thread runs its command on the database, holding the lock, and
\* returns.
Run(t) ==
  /\ desktop_pc[t] = "running"
  /\ desktop_lock = Some(t)
  /\ \/ \E fail \in {"none", "write"} :
          DesktopSubmitRating(LiveRating, desktop_now, fail)
     \/ DesktopGetAggregate(1)
  /\ Unlock(t)
  /\ desktop_pc' = [desktop_pc EXCEPT ![t] = "idle"]
  /\ UNCHANGED session

\* No request has reached the server.
ServerUntouched ==
  /\ hist = <<>>
  /\ others = MaxOthers
  /\ \A p \in Procs : pc[p] = "idle"

\* No command has been invoked in the desktop application.
DesktopUntouched == desktop_commands = 0 /\ InCommand = {}

\* The request both handlers of the server are given.
LiveRequests ==
  {r \in FewRequests : r.user_hash = <<"u">> /\ r.trust_level = 5}

\* A request of the server, with both handlers at work.
ServerRequest ==
  \E p \in Procs :
    \/ Submit(p, LiveRequests)
    \/ VoteHelpful(p, 1, <<"w">>, TRUE)
    \/ ReportRating(p, 1, <<"w">>, <<"s">>)
    \/ VerifyRatingIntegrity(p, 1)
    \/ IntegrityStatus(p)
    \/ BackupStatus(p, FALSE, None, FALSE)

\* A step of a thread of the desktop application.
DesktopThread ==
  \E t \in Threads :
    \/ Invoke(t)
    \/ Acquire(t)
    \/ Run(t)

\* The server and the desktop application are two programs that share no
\* state: a behaviour follows the callers of one of them.
NextLive ==
  \/ DesktopUntouched /\ ServerRequest
  \/ ServerUntouched /\ DesktopThread

\* The store answers every statement it is sent, a thread that waits for a
\* lock that is free again and again gets it, and a thread that holds it
\* runs.
Fairness ==
  /\ \A p \in Procs : WF_vars(RefreshAggregatesSelect(p))
  /\ \A p \in Procs : WF_vars(RefreshAggregatesWrite(p))
  /\ \A t \in Threads : SF_vars(Acquire(t))
  /\ \A t \in Threads : WF_vars(Run(t))

SpecLive == Init /\ [][NextLive]_vars /\ Fairness

\* ------------------------------------------------------------------ properties

\* No submit is between its statements.
Idle == \A p \in Procs : pc[p] = "idle"

\* The (domain_url, user_hash) pairs of the requests.
Pairs == {<<r.domain_url, r.user_hash>> : r \in Requests}

\* The submits of a pair whose upsert was committed, as indices of hist.
Commits(pair) ==
  {i \in 1..Len(hist) : /\ hist[i].committed
                        /\ hist[i].req.domain_url = pair[1]
                        /\ hist[i].req.user_hash = pair[2]}

\* The ledger rows of a rating, as indices of rating_audit_log.
EntriesOf(rating_id) ==
  {i \in 1..Len(rating_audit_log) : rating_audit_log[i].rating_id = rating_id}

\* The stored aggregate of a domain is the aggregate of its current ratings.
AggregateCurrent(d) ==
  AggregateOf(domain_rating_aggregates[d]) = AggregateRow(domain_ratings, d)

NoTables ==
  /\ domain_ratings = {}
  /\ rating_audit_log = <<>>
  /\ \A d \in Domains : domain_rating_aggregates[d] = None

\* C1: a submit is all or nothing: a submit that returned an error has
\* committed no rating mutation, and after a single failed submit the
\* ratings, the ledger and the aggregates are as they were before it.
C1_SubmitAtomic ==
  /\ \A i \in 1..Len(hist) : hist[i].status = 500 => ~hist[i].committed
  /\ (Len(hist) = 1 /\ hist[1].status = 500) => NoTables

\* C2: every committed rating mutation has exactly one ledger entry: the
\* entries of a rating are as many as the committed submits of its pair,
\* and the ledger holds nothing else.
C2_OneEntryPerCommit ==
  /\ \A r \in domain_ratings :
       Cardinality(EntriesOf(r.id)) =
         Cardinality(Commits(<<r.domain_url, r.user_hash>>))
  /\ Len(rating_audit_log) =
       Cardinality({i \in 1..Len(hist) : hist[i].committed})
  /\ \A i \in 1..Len(rating_audit_log) :
       \E r \in domain_ratings : r.id = rating_audit_log[i].rating_id

C2_Witness ==
  /\ Idle
  /\ \E r \in domain_ratings :
       /\ Cardinality(EntriesOf(r.id)) = 2
       /\ \A i \in Commits(<<r.domain_url, r.user_hash>>) : hist[i].status = 200

\* Two submits of one pair, the second made after the first returned, both
\* successful, and the only committed submits so far.
TwoInSequence(i, j) ==
  /\ i < j
  /\ hist[i].req.domain_url = hist[j].req.domain_url
  /\ hist[i].req.user_hash = hist[j].req.user_hash
  /\ hist[i].status = 200 /\ hist[j].status = 200
  /\ hist[j].alone
  /\ {k \in 1..Len(hist) : hist[k].committed} = {i, j}

\* C3: after two successful submissions of one pair, one after the other,
\* there is one Rating row for the pair, holding the second's values, its
\* ledger entries are (create, update) in that order, and the aggregate of
\* the domain is that of the second submission alone.
C3_UpsertSemantics ==
  \A i, j \in 1..Len(hist) :
    TwoInSequence(i, j) =>
      LET req == hist[j].req
          rows == RowsOf(domain_ratings, req.domain_url, req.user_hash)
      IN /\ Cardinality(rows) = 1
         /\ \A r \in rows :
              /\ r.trust_level = req.trust_level
              /\ r.bias_level = req.bias_level
              /\ r.comment = req.comment
              /\ LET trail == AuditTrail(rating_audit_log, r.id)
                 IN /\ Len(trail) = 2
                    /\ trail[1].action_type = "create"
                    /\ trail[2].action_type = "update"
         /\ AggregateOf(domain_rating_aggregates[req.domain_url]) =
              Some([avg_trust_level |-> <<req.trust_level, 1>>,
                    avg_bias_level |-> <<req.bias_level, 1>>,
                    total_ratings |-> 1,
                    trust_distribution |->
                      [k \in {IntToString(req.trust_level)} |-> 1],
                    bias_distribution |->
                      [k \in {IntToString(req.bias_level)} |-> 1]])

C3_Witness ==
  \E i, j \in 1..Len(hist) :
    /\ TwoInSequence(i, j)
    /\ hist[i].req.trust_level # hist[j].req.trust_level
    /\ hist[i].req.comment # hist[j].req.comment

\* C4: there is at most one Rating row per (domain, user) pair, exactly one
\* once a submit of the pair was committed, and no two rows share an id.
C4_OneRowPerPair ==
  /\ \A pair \in Pairs :
       LET n == Cardinality(RowsOf(domain_ratings, pair[1], pair[2]))
       IN /\ n <= 1
          /\ Commits(pair) # {} => n = 1
  /\ \A r, q \in domain_ratings : r.id = q.id => r = q

C4_Witness ==
  \E pair \in Pairs :
    /\ Cardinality(Commits(pair)) = 2
    /\ Cardinality(RowsOf(domain_ratings, pair[1], pair[2])) = 1

\* C5: whenever no submit is in progress, the stored aggregate of every
\* domain that has one is the aggregate of its current ratings.
C5_AggregateIsRecomputation ==
  Idle => \A d \in Domains :
            domain_rating_aggregates[d] # None => AggregateCurrent(d)

\* Submits by different users on one domain, all of them returned 200.
AllSucceededOnOneDomain ==
  /\ Idle
  /\ Len(hist) >= 2
  /\ \A i \in 1..Len(hist) : hist[i].status = 200
  /\ \A i, j \in 1..Len(hist) :
       /\ hist[i].req.domain_url = hist[j].req.domain_url
       /\ i # j => hist[i].req.user_hash # hist[j].req.user_hash

\* C6: once concurrent submits by different users on one domain have all
\* completed, the stored aggregate is the aggregate of the final ratings.
C6_LastCommitIsCorrect ==
  AllSucceededOnOneDomain => AggregateCurrent(hist[1].req.domain_url)

\* Two submits of one pair that overlapped, the only committed ones of the pair.
TwoOverlapping(i, j) ==
  /\ i < j
  /\ ~hist[j].alone
  /\ Commits(<<hist[i].req.domain_url, hist[i].req.user_hash>>) = {i, j}

\* C7: no submit fails on the uniqueness conflict, and two overlapping
\* submits of one pair leave one row for the pair, holding the values of
\* one of the two.
C7_ConflictNeverSurfaces ==
  /\ \A i \in 1..Len(hist) : hist[i].err # "conflict"
  /\ \A i, j \in 1..Len(hist) :
       TwoOverlapping(i, j) =>
         LET rows == RowsOf(domain_ratings, hist[i].req.domain_url,
                            hist[i].req.user_hash)
         IN /\ Cardinality(rows) = 1
            /\ \A r \in rows : \E k \in {i, j} :
                 /\ r.trust_level = hist[k].req.trust_level
                 /\ r.bias_level = hist[k].req.bias_level
                 /\ r.comment = hist[k].req.comment

C7_Witness ==
  \E i, j \in 1..Len(hist) :
    /\ TwoOverlapping(i, j)
    /\ hist[i].status = 200 /\ hist[j].status = 200
    /\ hist[i].req.trust_level # hist[j].req.trust_level

\* The levels of a request are within 1..5 and 1..4.
LevelsInRange(req) == req.trust_level \in 1..5 /\ req.bias_level \in 1..4

\* C8: a submit with a level out of range returns 400 and writes nothing:
\* the step that takes it leaves every table as it is.
C8_InvalidRejected ==
  [][ (Len(hist') = Len(hist) + 1 /\ ~LevelsInRange(hist'[Len(hist')].req))
        => /\ hist'[Len(hist')].status = 400
           /\ ~hist'[Len(hist')].committed
           /\ UNCHANGED <<tables, domain_ratings_id_seq>> ]_vars

C8_Witness ==
  /\ domain_ratings # {}
  /\ \E i \in 1..Len(hist) :
       ~LevelsInRange(hist[i].req) /\ hist[i].status = 400 /\ i > 1

\* The columns of rating_audit_log.
AuditColumns ==
  {"id", "rating_id", "action_type", "domain_url", "user_hash", "trust_level",
   "bias_level", "comment", "changed_at", "change_hash"}

\* The columns whose tampering the digest can show: its inputs other than
\* rating_id (which selects the trail), and the stored digest.
HashedColumns ==
  {"domain_url", "user_hash", "trust_level", "bias_level", "comment",
   "change_hash"}

\* Values someone with write access to the table may put in a column.
TamperValues(column) ==
  CASE column \in {"id", "rating_id"} -> 1..(Len(rating_audit_log) + 1)
    [] column = "action_type" -> {"create", "update"}
    [] column \in {"domain_url", "user_hash"} ->
         Domains \cup Users \cup {<<>>, <<"a", "|">>, <<"|", "u">>}
    [] column \in {"trust_level", "bias_level"} ->
         {None} \cup {Some(n) : n \in 0..6}
    [] column = "comment" -> {None, Some(<<>>), Some(<<"c">>), Some(<<"|">>)}
    [] column = "changed_at" -> 0..clock
    [] column = "change_hash" ->
         {rating_audit_log[k].change_hash : k \in 1..Len(rating_audit_log)}
           \cup {Sha256Hex(<<>>)}

\* The ledger with one column of its i-th row changed.
Tampered(i, column, value) ==
  [rating_audit_log EXCEPT ![i] = [@ EXCEPT ![column] = value]]

\* The text a column's value contributes to the digest's input.
Serialized(column, value) ==
  CASE column \in {"trust_level", "bias_level"} -> LevelText(value)
    [] column = "comment" -> UnwrapOrEmpty(value)
    [] OTHER -> value

\* verify of the rating of the i-th row reports the tampered ledger invalid,
\* with hash_valid false on that row's entry and true on every other entry.
Detected(i, log) ==
  LET report == verify_rating_integrity(domain_ratings, log,
                                        rating_audit_log[i].rating_id)
  IN /\ report.status = 200
     /\ ~report.body[1].is_valid
     /\ Len(report.body[1].audit_entries) =
          Cardinality(EntriesOf(rating_audit_log[i].rating_id))
     /\ \A k \in 1..Len(report.body[1].audit_entries) :
          report.body[1].audit_entries[k].hash_valid
            <=> report.body[1].audit_entries[k].id # rating_audit_log[i].id

\* C9: changing any single stored field of one AuditEntry to a different
\* value makes verify report hash_valid = false for exactly that entry and
\* is_valid = false, every other entry keeping hash_valid = true.
C9_AnyFieldTamperDetected ==
  \A i \in 1..Len(rating_audit_log) : \A column \in AuditColumns :
    \A value \in TamperValues(column) :
      value # rating_audit_log[i][column] =>
        Detected(i, Tampered(i, column, value))

\* C9, amended: so does changing one of domain_url, user_hash, trust_level,
\* bias_level, comment or change_hash to a value that serializes differently.
C9_HashedFieldTamperDetected ==
  \A i \in 1..Len(rating_audit_log) : \A column \in HashedColumns :
    \A value \in TamperValues(column) :
      Serialized(column, value) # Serialized(column, rating_audit_log[i][column])
        => Detected(i, Tampered(i, column, value))

C9_Witness ==
  \E r \in domain_ratings : \E i \in EntriesOf(r.id) :
    /\ Cardinality(EntriesOf(r.id)) = 2
    /\ verify_rating_integrity(domain_ratings, rating_audit_log, r.id).body[1].is_valid
    /\ Detected(i, Tampered(i, "comment", Some(<<"|">>)))
    /\ Detected(i, Tampered(i, "trust_level", None))

\* C10: the ledger is append-only: every step of every handler leaves each
\* existing entry in place with all its values, change_hash included.
C10_LedgerAppendOnly ==
  [][ /\ Len(rating_audit_log') >= Len(rating_audit_log)
      /\ \A i \in 1..Len(rating_audit_log) :
           rating_audit_log'[i] = rating_audit_log[i] ]_vars

C10_Witness ==
  /\ Len(rating_audit_log) >= 2
  /\ rating_audit_log[1].rating_id = rating_audit_log[2].rating_id
  /\ others < MaxOthers
  /\ Idle

\* The rating ids the ledger mentions.
LedgerRatingIds ==
  {rating_audit_log[i].rating_id : i \in 1..Len(rating_audit_log)}

\* C11: for every rating_id, the ledger ordered by time starts with a
\* "create" entry and continues with "update" entries only, and verify
\* returns the action types in that order.
C11_CreateThenUpdates ==
  \A id \in LedgerRatingIds :
    LET trail == AuditTrail(rating_audit_log, id)
        report == verify_rating_integrity(domain_ratings, rating_audit_log, id)
    IN /\ trail[1].action_type = "create"
       /\ \A k \in 2..Len(trail) : trail[k].action_type = "update"
       /\ \A k \in 1..(Len(trail) - 1) :
            trail[k].changed_at < trail[k + 1].changed_at
       /\ report.status = 200
       /\ \A k \in 1..Len(trail) :
            report.body[1].audit_entries[k].action_type = trail[k].action_type

C11_Witness ==
  \E id \in LedgerRatingIds :
    /\ Len(AuditTrail(rating_audit_log, id)) = 2
    /\ AuditTrail(rating_audit_log, id)[2].action_type = "update"
    /\ Cardinality(LedgerRatingIds) = 1
    /\ \E i \in 1..Len(hist) : ~hist[i].alone

\* The text of an entry's values in the order and with the delimiter of the
\* digest's input, an absent value being the empty text.
EntryText(e) ==
  IntToString(e.rating_id) \o <<"|">> \o e.domain_url \o <<"|">> \o e.user_hash
    \o <<"|">> \o (IF e.trust_level = None THEN <<>> ELSE IntToString(e.trust_level[1]))
    \o <<"|">> \o (IF e.bias_level = None THEN <<>> ELSE IntToString(e.bias_level[1]))
    \o <<"|">> \o (IF e.comment = None THEN <<>> ELSE e.comment[1])

\* C12: the change_hash of every entry a submit wrote is the digest of the
\* entry's (rating_id, domain_url, user_hash, trust_level, bias_level,
\* comment), absent values as the empty text, and verify, recomputing it,
\* reports every such entry with hash_valid = true and the rating valid.
C12_HashRoundTrip ==
  /\ \A i \in 1..Len(rating_audit_log) :
       LET e == rating_audit_log[i]
       IN /\ e.change_hash = Sha256Hex(EntryText(e))
          /\ compute_change_hash(e.rating_id, e.domain_url, e.user_hash,
                                 None, None, None)
               = Sha256Hex(EntryText([e EXCEPT !.trust_level = None,
                                               !.bias_level = None,
                                               !.comment = None]))
  /\ \A r \in domain_ratings :
       LET report == verify_rating_integrity(domain_ratings, rating_audit_log, r.id)
       IN /\ report.status = 200
          /\ report.body[1].is_valid
          /\ Len(report.body[1].audit_entries) = Cardinality(EntriesOf(r.id))
          /\ \A k \in 1..Len(report.body[1].audit_entries) :
               report.body[1].audit_entries[k].hash_valid

C12_Witness ==
  \E r \in domain_ratings :
    LET trail == AuditTrail(rating_audit_log, r.id)
    IN /\ Len(trail) = 2
       /\ trail[1].comment = None /\ trail[2].comment # None
       /\ trail[2].id # r.id
       /\ verify_rating_integrity(domain_ratings, rating_audit_log,
                                  r.id).body[1].audit_entries[2].hash_valid

\* The sum of the counts of a distribution.
RECURSIVE SumOfCounts(_)
SumOfCounts(dist) ==
  IF DOMAIN dist = {} THEN 0
  ELSE LET k == CHOOSE x \in DOMAIN dist : TRUE
       IN dist[k] + SumOfCounts([j \in DOMAIN dist \ {k} |-> dist[j]])

\* C13: in every state and for every domain that has a stored aggregate, the
\* counts of trust_distribution and the counts of bias_distribution both add
\* up to total_ratings; so do those of a row a refresh is about to write.
C13_SumProperty ==
  /\ \A d \in Domains :
       domain_rating_aggregates[d] # None =>
         LET agg == domain_rating_aggregates[d][1]
         IN /\ SumOfCounts(agg.trust_distribution) = agg.total_ratings
            /\ SumOfCounts(agg.bias_distribution) = agg.total_ratings
  /\ \A p \in Procs :
       snap[p] # None =>
         /\ SumOfCounts(snap[p][1].trust_distribution) = snap[p][1].total_ratings
         /\ SumOfCounts(snap[p][1].bias_distribution) = snap[p][1].total_ratings

C13_Witness ==
  \E d \in Domains :
    /\ domain_rating_aggregates[d] # None
    /\ domain_rating_aggregates[d][1].total_ratings = 2
    /\ Cardinality(DOMAIN domain_rating_aggregates[d][1].trust_distribution) = 2
    /\ Cardinality(DOMAIN domain_rating_aggregates[d][1].bias_distribution) = 2

\* Every submit so far was made after the one before it returned, and
\* returned 200.
SuccessfulSequence ==
  /\ Idle
  /\ hist # <<>>
  /\ \A i \in 1..Len(hist) : hist[i].status = 200 /\ hist[i].alone

\* The number of rows with each of the levels, 0 for a level no row has.
ZeroFilled(rows, column, levels) ==
  [k \in {IntToString(l) : l \in levels} |->
     Cardinality({r \in rows : IntToString(r[column]) = k})]

\* The arithmetic mean of a column, as a reduced fraction.
Mean(rows, column) ==
  LET total == SumOf(rows, column)
      n == Cardinality(rows)
  IN CHOOSE q \in (0..total) \X (1..n) :
       /\ q[1] * n = total * q[2]
       /\ \A r \in (0..total) \X (1..n) : r[1] * n = total * r[2] => q[2] <= r[2]

\* C14: after a sequence of successful submits, the aggregate of every domain
\* with ratings has total_ratings equal to the number of its rows, the means
\* of the current levels as averages, and in its distributions a count for
\* every level 1..5 and 1..4, 0 for a level no current rating has.
C14_AggregateValues ==
  SuccessfulSequence =>
    \A d \in Domains :
      LET rows == {r \in domain_ratings : r.domain_url = d}
      IN rows # {} =>
           /\ domain_rating_aggregates[d] # None
           /\ LET agg == domain_rating_aggregates[d][1]
              IN /\ agg.total_ratings = Cardinality(rows)
                 /\ agg.avg_trust_level = Mean(rows, "trust_level")
                 /\ agg.avg_bias_level = Mean(rows, "bias_level")
                 /\ agg.trust_distribution = ZeroFilled(rows, "trust_level", 1..5)
                 /\ agg.bias_distribution = ZeroFilled(rows, "bias_level", 1..4)

\* The command just run recomputed the aggregate of this domain.
Recomputed(d) ==
  /\ desktop_result # None
  /\ desktop_result[1].ok
  /\ desktop_result[1].recomputed = Some(d)

\* C15: when a recomputation has run for a domain that has no ratings, the
\* aggregate of the domain has avg_trust 3.0, avg_bias 2.5, total_ratings 0
\* and 0 in every place of both distributions; the summary of a domain that
\* has no aggregate row gives the same averages and total.
C15_EmptyDomainDefaults ==
  /\ \A d \in DomainIds :
       (Recomputed(d) /\ {r \in desktop_ratings : r.domain_id = d} = {}) =>
         LET agg == get_aggregate(desktop_aggregates, d)
         IN /\ agg # None
            /\ agg[1].avg_trust = <<3, 1>>
            /\ agg[1].avg_bias = <<5, 2>>
            /\ agg[1].total_ratings = 0
            /\ agg[1].trust_distribution = <<0, 0, 0, 0, 0>>
            /\ agg[1].bias_distribution = <<0, 0, 0, 0>>
  /\ \A d \in DomainIds :
       desktop_aggregates[d] = None =>
         LET summary == get_rating_summary(desktop_aggregates, d, <<"a">>)
         IN /\ summary.avg_trust = <<3, 1>>
            /\ summary.avg_bias = <<5, 2>>
            /\ summary.total_ratings = 0

C15_Witness ==
  \E d \in DomainIds :
    /\ Recomputed(d)
    /\ desktop_result[1].op = "delete_rating"
    /\ {r \in desktop_ratings : r.domain_id = d} = {}
    /\ desktop_aggregates[d] # None
    /\ desktop_aggregates[d][1].total_ratings = 0

\* The step is a recomputation of the aggregate of d that follows a
\* recomputation of d with no rating write in between: the command before
\* ended with the recomputation of d, and this one is update_aggregates(d).
RecomputedAgain(d) ==
  /\ Recomputed(d)
  /\ desktop_result' # None
  /\ desktop_result'[1].op = "update_aggregates"
  /\ desktop_result'[1].ok
  /\ desktop_result'[1].recomputed = Some(d)
  /\ desktop_ratings' = desktop_ratings

\* The columns of an aggregate row other than last_updated.
Statistics(row) ==
  [avg_trust |-> row.avg_trust, avg_bias |-> row.avg_bias,
   total_ratings |-> row.total_ratings,
   trust_distribution |-> row.trust_distribution,
   bias_distribution |-> row.bias_distribution]

\* C16: a recomputation that follows a recomputation of the same domain with
\* no rating write in between leaves the stored aggregate as it was.
C16_RecomputeIdempotent ==
  [][ \A d \in DomainIds :
        RecomputedAgain(d) => desktop_aggregates'[d] = desktop_aggregates[d] ]_vars

\* C16, amended: it leaves the averages, the total and both distributions of
\* the stored aggregate as they were, and sets last_updated to the time of
\* the second run, which is not earlier than that of the first.
C16_RecomputeKeepsStatistics ==
  [][ \A d \in DomainIds :
        RecomputedAgain(d) =>
          /\ desktop_aggregates'[d] # None
          /\ Statistics(desktop_aggregates'[d][1]) =
               Statistics(desktop_aggregates[d][1])
          /\ desktop_aggregates'[d][1].last_updated = Some(chrono_now(desktop_now'))
          /\ desktop_now' >= desktop_now
          /\ \A e \in DomainIds \ {d} :
               desktop_aggregates'[e] = desktop_aggregates[e] ]_vars

C16_Witness ==
  \E d \in DomainIds :
    /\ Recomputed(d)
    /\ desktop_result[1].op = "update_aggregates"
    /\ desktop_result[1].previous = Some(d)
    /\ desktop_aggregates[d][1].total_ratings = 2
    /\ desktop_aggregates[d][1].last_updated = Some(<<"3">>)

\* The answer of a verify request for this rating_id that did not fail in
\* the store.
Verified(id) ==
  /\ answer # None
  /\ answer[1].op = "verify_rating_integrity"
  /\ answer[1].arg = <<id>>
  /\ answer[1].err = "none"

\* C17: verify answers 404 exactly when no Rating row has the id, whether or
\* not the ledger has entries of the id, and answers 200 with a report when
\* the row exists; a failure of the store is a 500, never a 404.
C17_NotFoundIffNoRating ==
  /\ \A id \in RatingIds :
       Verified(id) =>
         /\ answer[1].status = 404 <=> ~ \E r \in domain_ratings : r.id = id
         /\ answer[1].status = 404 => answer[1].body = None
         /\ (\E r \in domain_ratings : r.id = id) =>
              /\ answer[1].status = 200
              /\ answer[1].body # None
              /\ answer[1].body[1].rating_id = id
  /\ (answer # None /\ answer[1].err = "storage") => answer[1].status = 500

C17_Witness ==
  \E id \in RatingIds :
    /\ Verified(id)
    /\ answer[1].status = 404
    /\ EntriesOf(id) # {}
    /\ domain_ratings # {}

\* The stored change_hash of a ledger row is the digest of its stored values.
Genuine(e) == e.change_hash = Sha256Hex(EntryText(e))

\* The report of a verify request for this rating_id.
Reported(id) == Verified(id) /\ answer[1].status = 200

\* C18: in every report of verify, is_valid is true exactly when every
\* returned entry has hash_valid = true, which is when every ledger row of
\* the rating is genuine; a rating with no entries is reported valid.
C18_ValidIffAllEntriesValid ==
  \A id \in RatingIds :
    Reported(id) =>
      LET report == answer[1].body[1]
      IN /\ report.is_valid <=>
              \A k \in 1..Len(report.audit_entries) :
                report.audit_entries[k].hash_valid
         /\ report.is_valid <=>
              \A i \in EntriesOf(id) : Genuine(rating_audit_log[i])
         /\ EntriesOf(id) = {} => report.is_valid

C18_Witness ==
  \E id \in RatingIds :
    /\ Reported(id)
    /\ Len(answer[1].body[1].audit_entries) = 3
    /\ ~answer[1].body[1].audit_entries[1].hash_valid
    /\ answer[1].body[1].audit_entries[2].hash_valid
    /\ answer[1].body[1].audit_entries[3].hash_valid
    /\ ~answer[1].body[1].is_valid

\* The timestamps of the ledger rows of a rating.
ChangeTimes(id) == {rating_audit_log[i].changed_at : i \in EntriesOf(id)}

\* C19: in every report of verify, total_changes is the number of ledger rows
\* of the rating, created_at is the earliest changed_at among them and
\* last_modified the latest, and both are absent exactly when the rating has
\* no ledger rows.
C19_CountsAndTimestamps ==
  \A id \in RatingIds :
    Reported(id) =>
      LET report == answer[1].body[1]
      IN /\ report.total_changes = Cardinality(EntriesOf(id))
         /\ Len(report.audit_entries) = report.total_changes
         /\ report.created_at = None <=> EntriesOf(id) = {}
         /\ report.last_modified = None <=> EntriesOf(id) = {}
         /\ EntriesOf(id) # {} =>
              /\ report.created_at[1] \in ChangeTimes(id)
              /\ report.last_modified[1] \in ChangeTimes(id)
              /\ \A t \in ChangeTimes(id) :
                   report.created_at[1] <= t /\ t <= report.last_modified[1]
              /\ report.created_at[1] <= report.last_modified[1]

C19_Witness ==
  \E id \in RatingIds :
    /\ Reported(id)
    /\ answer[1].body[1].total_changes = 2
    /\ Len(rating_audit_log) = 3
    /\ answer[1].body[1].created_at[1] < answer[1].body[1].last_modified[1]
    /\ \E i, j \in EntriesOf(id) :
         i < j /\ rating_audit_log[i].changed_at > rating_audit_log[j].changed_at

\* C20: a hash mismatch is not an error: verify of an existing rating that
\* does not fail in the store answers 200 whatever entries are tampered, and
\* its report has one entry for every ledger row of the rating, with
\* hash_valid = false on the tampered rows and true on the others.
C20_MismatchIsAFinding ==
  \A id \in RatingIds :
    (Verified(id) /\ \E r \in domain_ratings : r.id = id) =>
      /\ answer[1].status = 200
      /\ LET entries == answer[1].body[1].audit_entries
         IN /\ Len(entries) = Cardinality(EntriesOf(id))
            /\ \A i \in EntriesOf(id) :
                 \E k \in 1..Len(entries) :
                   /\ entries[k].id = rating_audit_log[i].id
                   /\ entries[k].hash_valid <=> Genuine(rating_audit_log[i])

C20_Witness ==
  \E id \in RatingIds :
    /\ Reported(id)
    /\ Len(answer[1].body[1].audit_entries) = 3
    /\ ~answer[1].body[1].audit_entries[1].hash_valid
    /\ answer[1].body[1].audit_entries[2].hash_valid
    /\ ~answer[1].body[1].audit_entries[3].hash_valid

\* The Rating rows that have no ledger row.
Orphans == {r \in domain_ratings : EntriesOf(r.id) = {}}

\* The answer of a health request that did not fail in the store.
HealthReported ==
  /\ answer # None
  /\ answer[1].op = "integrity_status"
  /\ answer[1].err = "none"

\* C21: the integrity status reports as orphaned_ratings the number of Rating
\* rows without a ledger row, and is_healthy exactly when orphaned_ratings
\* and invalid_audit_entries are both 0, so a rating without entries makes
\* it unhealthy; the totals are the sizes of the two tables.
C21_OrphansMakeUnhealthy ==
  HealthReported =>
    /\ answer[1].status = 200
    /\ LET status == answer[1].body[1]
       IN /\ status.orphaned_ratings = Cardinality(Orphans)
          /\ status.is_healthy <=>
               (status.orphaned_ratings = 0 /\ status.invalid_audit_entries = 0)
          /\ Orphans # {} => ~status.is_healthy
          /\ status.total_ratings = Cardinality(domain_ratings)
          /\ status.total_audit_entries = Len(rating_audit_log)

C21_Witness ==
  /\ HealthReported
  /\ answer[1].body[1].orphaned_ratings = 1
  /\ answer[1].body[1].total_ratings = 2
  /\ answer[1].body[1].total_audit_entries = 2
  /\ ~answer[1].body[1].is_healthy

\* C30: the integrity status never verifies a hash: it reports
\* invalid_audit_entries = 0 whatever the ledger holds, so it is healthy
\* exactly when no rating is orphaned, also when verify reports a rating
\* invalid.
C30_CheapModeStatus ==
  HealthReported =>
    /\ answer[1].status = 200
    /\ answer[1].body[1].invalid_audit_entries = 0
    /\ answer[1].body[1].is_healthy <=> Orphans = {}

C30_Witness ==
  /\ HealthReported
  /\ answer[1].body[1].is_healthy
  /\ domain_ratings # {}
  /\ \E r \in domain_ratings :
       ~verify_rating_integrity(domain_ratings, rating_audit_log,
                                r.id).body[1].is_valid

\* Number of helpful votes a rating has.
HelpfulCount(rating_id) ==
  Cardinality({v \in rating_votes : v.rating_id = rating_id /\ v.is_helpful})

\* x comes before y in the order "helpful_count descending, then created_at
\* descending".
MoreHelpful(x, y) ==
  \/ HelpfulCount(x.id) > HelpfulCount(y.id)
  \/ /\ HelpfulCount(x.id) = HelpfulCount(y.id)
     /\ x.created_at > y.created_at

\* C22: the reviews of a domain are ratings of that domain only, at most 50,
\* ordered by the number of helpful votes descending and, among equals, by
\* created_at descending, and they are the first 50 of the domain's ratings
\* in that order.
C22_ReviewsByHelpfulness ==
  (answer # None /\ answer[1].op = "get_domain_reviews"
                 /\ answer[1].err = "none") =>
    LET d == answer[1].arg[1]
        s == answer[1].body[1]
        mine == {r \in domain_ratings : r.domain_url = d}
        n == IF Cardinality(mine) < 50 THEN Cardinality(mine) ELSE 50
    IN /\ answer[1].status = 200
       /\ Len(s) = n
       /\ \A i \in 1..Len(s) : s[i] \in mine
       /\ \A i, j \in 1..Len(s) : i # j => s[i] # s[j]
       /\ \A i, j \in 1..Len(s) : i < j => ~MoreHelpful(s[j], s[i])
       /\ \A r \in mine : (\A i \in 1..Len(s) : s[i] # r) =>
                             \A i \in 1..Len(s) : ~MoreHelpful(r, s[i])

\* The step is the response 201 of a vote.
VoteStep ==
  /\ others' = others - 1
  /\ answer' # None
  /\ answer'[1].op = "vote_helpful"
  /\ answer'[1].status = 201

\* C23: a vote leaves at most one row per rating and voter, the row of the
\* vote's rating and voter holds the vote's is_helpful, the rows of the other
\* ratings and voters stay as they were, and a vote that repeats what is
\* stored changes nothing.
C23_LastVoteWins ==
  [][VoteStep =>
       LET a == answer'[1].arg
           Others(votes) == {v \in votes : ~(/\ v.rating_id = a[1]
                                              /\ v.voter_hash = a[2])}
       IN /\ \A id \in RatingIds, w \in Hashes :
               Cardinality({v \in rating_votes' : /\ v.rating_id = id
                                                  /\ v.voter_hash = w}) <= 1
          /\ StoredVote(rating_votes', a[1], a[2]) = Some(a[3])
          /\ Others(rating_votes') = Others(rating_votes)
          /\ a[4] = Some(a[3]) => rating_votes' = rating_votes]_vars

\* A voter who had voted the opposite on the rating has voted again, and
\* another voter's vote on the same rating is stored too.
C23_Witness ==
  /\ answer # None
  /\ answer[1].op = "vote_helpful"
  /\ answer[1].status = 201
  /\ answer[1].arg[4] = Some(~answer[1].arg[3])
  /\ StoredVote(rating_votes, answer[1].arg[1], answer[1].arg[2])
       = Some(answer[1].arg[3])
  /\ \E v \in rating_votes : /\ v.rating_id = answer[1].arg[1]
                              /\ v.voter_hash # answer[1].arg[2]

\* The step is the response 201 of a report.
ReportStep ==
  /\ others' = others - 1
  /\ answer' # None
  /\ answer'[1].op = "report_rating"
  /\ answer'[1].status = 201

\* C24: a successful report adds one row, of its rating, reporter and reason,
\* after the rows there were, and changes none of them.
C24_ReportsAppend ==
  [][ReportStep =>
       LET a == answer'[1].arg
       IN /\ Len(rating_reports') = Len(rating_reports) + 1
          /\ \A i \in 1..Len(rating_reports) :
               rating_reports'[i] = rating_reports[i]
          /\ rating_reports'[Len(rating_reports')] =
               [rating_id |-> a[1], reporter_hash |-> a[2], reason |-> a[3]]]_vars

\* One reporter has reported one rating three times and three rows are stored.
C24_Witness ==
  /\ answer # None
  /\ answer[1].op = "report_rating"
  /\ answer[1].status = 201
  /\ Len(rating_reports) = 3
  /\ \A i \in 1..Len(rating_reports) :
       /\ rating_reports[i].rating_id = answer[1].arg[1]
       /\ rating_reports[i].reporter_hash = answer[1].arg[2]

\* The submits of a domain that returned 200, as indices of hist.
Succeeded(d) ==
  {i \in 1..Len(hist) : hist[i].status = 200 /\ hist[i].req.domain_url = d}

\* C25: the aggregate query answers 404 exactly when the domain has no row
\* of domain_rating_aggregates, answers 200 with the row otherwise, and
\* never answers 404 for a domain with a submit that returned 200.
C25_NotFoundIffNoAggregate ==
  (answer # None /\ answer[1].op = "get_domain_rating"
                 /\ answer[1].err = "none") =>
    LET d == answer[1].arg[1]
    IN /\ answer[1].status \in {200, 404}
       /\ answer[1].status = 404 <=> domain_rating_aggregates[d] = None
       /\ answer[1].status = 200 =>
            answer[1].body = AggregateOf(domain_rating_aggregates[d])
       /\ Succeeded(d) # {} => answer[1].status = 200

\* The aggregate of a domain was queried after a submit for it returned 200.
C25_Witness ==
  /\ answer # None
  /\ answer[1].op = "get_domain_rating"
  /\ answer[1].status = 200
  /\ Succeeded(answer[1].arg[1]) # {}

\* C26: backup_status gives replication_lag_seconds a value only on a
\* replica in recovery whose lag query succeeded; otherwise the field is
\* absent, and the last entry's time and the two counts are returned all the
\* same.
C26_LagOnlyInRecovery ==
  (answer # None /\ answer[1].op = "backup_status"
                 /\ answer[1].err = "none") =>
    LET in_recovery == answer[1].arg[1]
        failed == answer[1].arg[3]
        status == answer[1].body[1]
    IN /\ answer[1].status = 200
       /\ status.last_audit_entry = LastAuditEntry(rating_audit_log)
       /\ status.total_ratings = Cardinality(domain_ratings)
       /\ status.total_audit_entries = Len(rating_audit_log)
       /\ status.replication_lag_seconds # None => in_recovery /\ ~failed
       /\ (~in_recovery \/ failed) => status.replication_lag_seconds = None

\* The lag query failed on a replica in recovery that holds a rating: the
\* status is returned without a lag.
C26_Witness ==
  /\ answer # None
  /\ answer[1].op = "backup_status"
  /\ answer[1].err = "none"
  /\ answer[1].arg[1]
  /\ answer[1].arg[2] # None
  /\ answer[1].arg[3]
  /\ answer[1].body[1].replication_lag_seconds = None
  /\ answer[1].body[1].total_ratings > 0

\* The step is the return of an incognito command.
IncognitoStep(op) ==
  /\ session_commands' = session_commands + 1
  /\ incognito_result' # incognito_result
  /\ incognito_result'[1].op = op

\* C28: toggle_incognito returns the negation of the flag it was called
\* with and leaves the flag at the value it returns; a get_incognito_status
\* that follows it returns that value; and a toggle that follows a toggle
\* leaves the flag as it was before the first.
C28_ToggleFlips ==
  [][/\ IncognitoStep("toggle_incognito") =>
          /\ incognito_result'[1].value = Some(~incognito_mode)
          /\ incognito_mode' = ~incognito_mode
          /\ (incognito_result # None /\ incognito_result[1].op = "toggle_incognito")
               => incognito_mode' = incognito_result[1].before
     /\ (/\ IncognitoStep("get_incognito_status")
         /\ incognito_result # None
         /\ incognito_result[1].op = "toggle_incognito") =>
          incognito_result'[1].value = incognito_result[1].value]_vars

\* A toggle has followed a toggle and the flag is off again, as it was.
C28_Witness ==
  /\ incognito_result # None
  /\ incognito_result[1].op = "toggle_incognito"
  /\ incognito_result[1].previous = "toggle_incognito"
  /\ incognito_result[1].before = TRUE
  /\ incognito_result[1].value = Some(FALSE)
  /\ incognito_mode = FALSE

\* The profile the store holds as active, if any.
ActiveProfiles(db) == {r \in db.profiles : r.is_active}

\* The step is the return of a create_profile, called after init returned
\* Ok, with a name that no stored profile has, and without a failure of the
\* store.
CreateStep ==
  /\ session_commands' = session_commands + 1
  /\ profile_result' # None
  /\ profile_result'[1].op = "create_profile"
  /\ profile_result'[1].arg[3] = "none"
  /\ profile_result # None
  /\ profile_result[1].initialized
  /\ \A r \in profile_db.profiles : r.name # profile_result'[1].arg[1]

\* C29: create_profile on an initialized store returns a profile with the
\* given name and icon and is_active = false, stores it as inactive, and
\* leaves the active profile as it was.
C29_CreatedInactive ==
  [][CreateStep =>
       LET name == profile_result'[1].arg[1]
           icon == profile_result'[1].arg[2]
       IN /\ profile_result'[1].ok
          /\ profile_result'[1].value # None
          /\ LET profile == profile_result'[1].value[1]
             IN /\ profile.name = name
                /\ profile.icon = icon
                /\ ~profile.is_active
                /\ \E r \in profile_db'.profiles :
                     /\ r.id = profile.id
                     /\ r.name = name
                     /\ r.icon = icon
                     /\ ~r.is_active
          /\ ActiveProfiles(profile_db') = ActiveProfiles(profile_db)]_vars

DesktopSubmitStep ==
  /\ desktop_commands' = desktop_commands + 1
  /\ desktop_result' # None
  /\ desktop_result'[1].op = "submit_rating"
  /\ desktop_result'[1].ok

\* The desktop's rows of a domain and a user.
DesktopRowsOf(rows, domain_id, user_id) ==
  {r \in rows : r.domain_id = domain_id /\ r.user_id = user_id}

\* C31: a resubmission changes the trust level, bias level, comment and
\* updated_at of the pair's row and nothing else of it, and no other row; a
\* first submission adds one row, with created_at = updated_at, and changes
\* no other row.
C31_ResubmitFrame ==
  [][DesktopSubmitStep =>
       LET rating == desktop_result'[1].value[1]
           old == DesktopRowsOf(desktop_ratings, rating.domain_id, rating.user_id)
           new == DesktopRowsOf(desktop_ratings', rating.domain_id, rating.user_id)
       IN /\ desktop_ratings' \ new = desktop_ratings \ old
          /\ Cardinality(new) = 1
          /\ \A n \in new :
               /\ n.trust_rating = rating.trust_rating
               /\ n.bias_rating = rating.bias_rating
               /\ n.review_text = rating.review_text
               /\ \A o \in old : /\ n.id = o.id
                                  /\ n.created_at = o.created_at
                                  /\ n.helpful_count = o.helpful_count
                                  /\ n.reported = o.reported
               /\ old = {} => n.updated_at = Some(n.created_at)]_vars

\* The step is the response of a vote or a report, whatever its status.
ModerationStep ==
  /\ others' = others - 1
  /\ answer' # None
  /\ answer'[1].op \in {"vote_helpful", "report_rating", "moderation"}

\* C32: a vote or a report leaves the Rating rows, the aggregates and the
\* ledger as they were, so verify of every rating and the integrity status
\* give after it what they gave before it.
C32_ModerationFrame ==
  [][ModerationStep =>
       /\ domain_ratings' = domain_ratings
       /\ domain_rating_aggregates' = domain_rating_aggregates
       /\ rating_audit_log' = rating_audit_log
       /\ \A id \in RatingIds :
            verify_rating_integrity(domain_ratings', rating_audit_log', id) =
              verify_rating_integrity(domain_ratings, rating_audit_log, id)
       /\ integrity_status(domain_ratings', rating_audit_log', clock') =
            integrity_status(domain_ratings, rating_audit_log, clock)]_vars

\* A vote was stored for a rating that exists and has its ledger entry.
C32_Witness ==
  /\ answer # None
  /\ answer[1].op = "vote_helpful"
  /\ answer[1].status = 201
  /\ \E r \in domain_ratings : /\ r.id = answer[1].arg[1]
                                /\ EntriesOf(r.id) # {}
  /\ \E v \in rating_votes : v.rating_id = answer[1].arg[1]

\* The values an entry's digest is taken of.
Hashed(e) ==
  <<e.rating_id, e.domain_url, e.user_hash, e.trust_level, e.bias_level,
    e.comment>>

\* C33: two entries of a verified ledger that differ in a value their
\* digests are taken of differ in the text that is digested, and so in
\* change_hash.
C33_EncodingInjective ==
  (answer # None /\ answer[1].op = "verify_rating_integrity"
                 /\ answer[1].status = 200) =>
    \A i, j \in 1..Len(rating_audit_log) :
      LET e == rating_audit_log[i]
          f == rating_audit_log[j]
      IN Hashed(e) # Hashed(f) =>
           /\ ChangeData(e.rating_id, e.domain_url, e.user_hash, e.trust_level,
                         e.bias_level, e.comment)
                # ChangeData(f.rating_id, f.domain_url, f.user_hash,
                             f.trust_level, f.bias_level, f.comment)
           /\ e.change_hash # f.change_hash

\* C34: the DomainRating that a successful submit_rating returns is the row
\* stored for its domain and user when it returns, field by field, for a
\* first submission and for a resubmission.
C34_ReturnedIsStored ==
  [][DesktopSubmitStep =>
       LET rating == desktop_result'[1].value[1]
           stored == DesktopRowsOf(desktop_ratings', rating.domain_id,
                                   rating.user_id)
       IN /\ stored # {}
          /\ \A row \in stored :
               /\ rating.id = Some(row.id)
               /\ rating.trust_rating = row.trust_rating
               /\ rating.bias_rating = row.bias_rating
               /\ rating.review_text = row.review_text
               /\ rating.created_at = row.created_at
               /\ rating.updated_at = row.updated_at
               /\ rating.helpful_count = row.helpful_count
               /\ rating.reported = row.reported]_vars

\* The step is a delete_rating of the desktop that returned Ok.
DesktopDeleteStep ==
  /\ desktop_commands' = desktop_commands + 1
  /\ desktop_result' # None
  /\ desktop_result'[1].op = "delete_rating"
  /\ desktop_result'[1].ok

\* The averages, total and distributions of a recomputation over rows.
StatisticsOver(rows) ==
  [avg_trust |-> IF rows = {} THEN <<3, 1>> ELSE Avg(rows, "trust_rating"),
   avg_bias |-> IF rows = {} THEN <<5, 2>> ELSE Avg(rows, "bias_rating"),
   total_ratings |-> Cardinality(rows),
   trust_distribution |->
     [i \in 1..5 |-> Cardinality({r \in rows : r.trust_rating = i})],
   bias_distribution |->
     [i \in 1..4 |-> Cardinality({r \in rows : r.bias_rating = i})]]

\* C35: a delete_rating that returns true has removed one row, the row of
\* one id and one user, and the aggregate of the row's domain is then a
\* recomputation over the remaining rows of the domain (total 0, 3.0 and 2.5
\* when none remains); one that returns false has left the ratings and the
\* aggregates as they were.
C35_DeleteRecomputes ==
  [][DesktopDeleteStep =>
       LET removed == desktop_ratings \ desktop_ratings'
       IN /\ desktop_ratings' \subseteq desktop_ratings
          /\ Cardinality(removed) <= 1
          /\ desktop_result'[1].value = Some(removed # {})
          /\ \A row \in removed :
               LET rest == {r \in desktop_ratings' : r.domain_id = row.domain_id}
                   aggregate == get_aggregate(desktop_aggregates', row.domain_id)
               IN /\ aggregate # None
                  /\ Statistics(aggregate[1]) = StatisticsOver(rest)
                  /\ \A d \in DomainIds \ {row.domain_id} :
                       desktop_aggregates'[d] = desktop_aggregates[d]
          /\ removed = {} => desktop_aggregates' = desktop_aggregates]_vars

\* C36: once init has returned Ok on the application's database file, after
\* every create_profile, switch_profile and delete_profile, whatever its
\* arguments and its result, at least one profile exists and exactly one
\* profile is active.
C36_OneActiveProfile ==
  (/\ profile_db_path = "earthservers.db"
   /\ profile_result # None
   /\ profile_result[1].initialized) =>
    /\ profile_db.profiles # {}
    /\ Cardinality(ActiveProfiles(profile_db)) = 1
====
